---- MODULE Spec2Model ----
(***************************************************************************)
(* Roll-call raffle (QQHKX/Random-Name): the zustand store (roster, pool,  *)
(* settings, history, lastResult, selectedStudent), the App draw handlers, *)
(* the settings-modal import handlers and the gallery's name resolution.   *)
(*                                                                         *)
(* Conventions                                                             *)
(*  - a JS string is a sequence of one-character strings;                  *)
(*  - a JS optional value (T | undefined | null) is a sequence of length   *)
(*    0 (undefined / null) or 1 (<<value>>);                               *)
(*  - Math.random() is an integer number of thousandths, 0..999, so that   *)
(*    Math.floor(r * n) is (r * n) \div 1000;                              *)
(*  - uid() is the next value of a counter (ids are fresh);                *)
(*  - Date.now() is a clock that advances by one on every read.            *)
(***************************************************************************)
EXTENDS Integers, Sequences, FiniteSets, TLC

VARIABLES
    roster,           \* Student[]            (store)
    pool,             \* string[] of ids      (store)
    settings,         \* AppSettings: noRepeat, speed (store)
    history,          \* RollResult[]         (store)
    lastResult,       \* RollResult?          (store)
    selectedStudent,  \* Student?             (store)
    nextId,           \* ids handed out so far by uid()
    clock,            \* last value returned by Date.now()
    currentPage,      \* App: 'home' | 'roulette' | 'result'
    rollItems,        \* App: tiles of the reel, or null
    targetIndex,      \* App: index of the target tile
    timers,           \* App: pending setTimeout(() => setRollItems(null), 200)
    gallery,          \* Gallery: its query and its cards while it is mounted
    wear,             \* a wear value generated for a level and the level read back
    rarityDraw,       \* one Math.random() value and the rarity each sampler gives it
    menu,             \* the result screen: its props and the callbacks it has invoked
    auto,             \* the auto multi-draw: its state, its cycle and its draws
    fetches,          \* SettingsModal: the imports waiting for their file
    reel,             \* Roulette: the component's state once it was mounted
    last,             \* history variable: the last call and what it returned
    run               \* history variable: ids returned by the consecutive
                      \* drawNext calls that started on a full pool

storeVars == <<roster, pool, settings, history, lastResult, selectedStudent>>
envVars   == <<nextId, clock>>
uiVars    == <<currentPage, rollItems, targetIndex, timers, gallery, wear,
               rarityDraw, menu, auto, fetches, reel>>
vars      == <<roster, pool, settings, history, lastResult, selectedStudent,
               nextId, clock, currentPage, rollItems, targetIndex, timers,
               gallery, wear, rarityDraw, menu, auto, fetches, reel, last, run>>

(***************************************************************************)
(* Bounds of the model                                                     *)
(***************************************************************************)
MaxIds == 2          \* uid() is called at most this many times
MaxDraws == 3        \* drawNext is called at most this many times on the store
MaxAppDraws == 2     \* handleDraw draws at most this many times
MaxLongDraws == 2002 \* draws of the long-history specification
MaxStarts == 3       \* the animation effect of one reel runs at most this often
MaxClicks == 3       \* clicks on the result screen
MaxPriority == 2     \* the priority of a sort rule of the gallery is at most this
MaxFetches == 1      \* imports waiting for their file at a time

(***************************************************************************)
(* Program constants                                                       *)
(***************************************************************************)
HistoryLimit == 200          \* [...s.history, result].slice(-200)
MaxHistoryRecords == 2000    \* STORAGE_CONFIG.MAX_HISTORY_RECORDS

Whitespace ==
    { "\t", "\n", "U+000B", "U+000C", "\r", " ", "U+00A0", "U+1680",
      "U+2000", "U+2001", "U+2002", "U+2003", "U+2004", "U+2005", "U+2006",
      "U+2007", "U+2008", "U+2009", "U+200A", "U+2028", "U+2029", "U+202F",
      "U+205F", "U+3000", "U+FEFF" }
Speeds == {"slow", "normal", "fast"}

(***************************************************************************)
(* Sequence helpers                                                        *)
(***************************************************************************)
Range(s) == {s[i] : i \in 1..Len(s)}

\* Array.prototype.filter
Filter(s, Keep(_)) == SelectSeq(s, Keep)

\* Array.prototype.slice(-n), n > 0
SliceLast(s, n) ==
    IF Len(s) <= n THEN s ELSE SubSeq(s, Len(s) - n + 1, Len(s))

\* roster.map((s) => s.id)
Ids(r) == [i \in 1..Len(r) |-> r[i].id]

\* roster.find((s) => s.id === id)
Find(r, id) ==
    IF \E i \in 1..Len(r) : r[i].id = id
    THEN <<r[CHOOSE i \in 1..Len(r) :
              r[i].id = id /\ \A j \in 1..(i - 1) : r[j].id # id]>>
    ELSE <<>>

(***************************************************************************)
(* Text parsing: text.split(/\r?\n/).map(trim).filter(length > 0)          *)
(***************************************************************************)
\* String.prototype.split(/\r?\n/): a "\n", with the "\r" before it if any,
\* ends the current line; the result always has at least one element.
RECURSIVE SplitFrom(_, _, _)
SplitFrom(text, i, cur) ==
    IF i > Len(text) THEN <<cur>>
    ELSE IF text[i] = "\n"
         THEN LET line == IF cur # <<>> /\ cur[Len(cur)] = "\r"
                          THEN SubSeq(cur, 1, Len(cur) - 1) ELSE cur
              IN <<line>> \o SplitFrom(text, i + 1, <<>>)
         ELSE SplitFrom(text, i + 1, Append(cur, text[i]))

SplitLines(text) == SplitFrom(text, 1, <<>>)

\* String.prototype.trim
RECURSIVE TrimLeft(_)
TrimLeft(s) ==
    IF s # <<>> /\ Head(s) \in Whitespace THEN TrimLeft(Tail(s)) ELSE s

RECURSIVE TrimRight(_)
TrimRight(s) ==
    IF s # <<>> /\ s[Len(s)] \in Whitespace
    THEN TrimRight(SubSeq(s, 1, Len(s) - 1)) ELSE s

Trim(s) == TrimRight(TrimLeft(s))

NonEmpty(l) == Len(l) > 0

\* the names of an imported text
ParseNames(text) ==
    LET lines == SplitLines(text)
        trimmed == [i \in 1..Len(lines) |-> Trim(lines[i])]
    IN Filter(trimmed, NonEmpty)

\* String.prototype.toLowerCase on strings of characters of the Basic
\* Multilingual Plane. A character outside ASCII is written by its code
\* point ("U+59D3"). UpperLetters are the characters with a lower-case form
\* of one character, the letters of ASCII and Latin-1 first, and
\* LowerLetters those forms, in the same order (Unicode 14, and the capital
\* letters U+1C89, U+A7CB, U+A7CC, U+A7CE, U+A7D2, U+A7D4, U+A7DA and U+A7DC
\* added since).
UpperLetters ==
    << "A", "B", "C", "D", "E", "F", "G", "H", "I", "J", "K", "L", "M", "N",
       "O", "P", "Q", "R", "S", "T", "U", "V", "W", "X", "Y", "Z", "U+00C0",
       "U+00C1", "U+00C2", "U+00C3", "U+00C4", "U+00C5", "U+00C6", "U+00C7",
       "U+00C8", "U+00C9", "U+00CA", "U+00CB", "U+00CC", "U+00CD", "U+00CE",
       "U+00CF", "U+00D0", "U+00D1", "U+00D2", "U+00D3", "U+00D4", "U+00D5",
       "U+00D6", "U+00D8", "U+00D9", "U+00DA", "U+00DB", "U+00DC", "U+00DD",
       "U+00DE", "U+0100", "U+0102", "U+0104", "U+0106", "U+0108", "U+010A",
       "U+010C", "U+010E", "U+0110", "U+0112", "U+0114", "U+0116", "U+0118",
       "U+011A", "U+011C", "U+011E", "U+0120", "U+0122", "U+0124", "U+0126",
       "U+0128", "U+012A", "U+012C", "U+012E", "U+0132", "U+0134", "U+0136",
       "U+0139", "U+013B", "U+013D", "U+013F", "U+0141", "U+0143", "U+0145",
       "U+0147", "U+014A", "U+014C", "U+014E", "U+0150", "U+0152", "U+0154",
       "U+0156", "U+0158", "U+015A", "U+015C", "U+015E", "U+0160", "U+0162",
       "U+0164", "U+0166", "U+0168", "U+016A", "U+016C", "U+016E", "U+0170",
       "U+0172", "U+0174", "U+0176", "U+0178", "U+0179", "U+017B", "U+017D",
       "U+0181", "U+0182", "U+0184", "U+0186", "U+0187", "U+0189", "U+018A",
       "U+018B", "U+018E", "U+018F", "U+0190", "U+0191", "U+0193", "U+0194",
       "U+0196", "U+0197", "U+0198", "U+019C", "U+019D", "U+019F", "U+01A0",
       "U+01A2", "U+01A4", "U+01A6", "U+01A7", "U+01A9", "U+01AC", "U+01AE",
       "U+01AF", "U+01B1", "U+01B2", "U+01B3", "U+01B5", "U+01B7", "U+01B8",
       "U+01BC", "U+01C4", "U+01C5", "U+01C7", "U+01C8", "U+01CA", "U+01CB",
       "U+01CD", "U+01CF", "U+01D1", "U+01D3", "U+01D5", "U+01D7", "U+01D9",
       "U+01DB", "U+01DE", "U+01E0", "U+01E2", "U+01E4", "U+01E6", "U+01E8",
       "U+01EA", "U+01EC", "U+01EE", "U+01F1", "U+01F2", "U+01F4", "U+01F6",
       "U+01F7", "U+01F8", "U+01FA", "U+01FC", "U+01FE", "U+0200", "U+0202",
       "U+0204", "U+0206", "U+0208", "U+020A", "U+020C", "U+020E", "U+0210",
       "U+0212", "U+0214", "U+0216", "U+0218", "U+021A", "U+021C", "U+021E",
       "U+0220", "U+0222", "U+0224", "U+0226", "U+0228", "U+022A", "U+022C",
       "U+022E", "U+0230", "U+0232", "U+023A", "U+023B", "U+023D", "U+023E",
       "U+0241", "U+0243", "U+0244", "U+0245", "U+0246", "U+0248", "U+024A",
       "U+024C", "U+024E", "U+0370", "U+0372", "U+0376", "U+037F", "U+0386",
       "U+0388", "U+0389", "U+038A", "U+038C", "U+038E", "U+038F", "U+0391",
       "U+0392", "U+0393", "U+0394", "U+0395", "U+0396", "U+0397", "U+0398",
       "U+0399", "U+039A", "U+039B", "U+039C", "U+039D", "U+039E", "U+039F",
       "U+03A0", "U+03A1", "U+03A3", "U+03A4", "U+03A5", "U+03A6", "U+03A7",
       "U+03A8", "U+03A9", "U+03AA", "U+03AB", "U+03CF", "U+03D8", "U+03DA",
       "U+03DC", "U+03DE", "U+03E0", "U+03E2", "U+03E4", "U+03E6", "U+03E8",
       "U+03EA", "U+03EC", "U+03EE", "U+03F4", "U+03F7", "U+03F9", "U+03FA",
       "U+03FD", "U+03FE", "U+03FF", "U+0400", "U+0401", "U+0402", "U+0403",
       "U+0404", "U+0405", "U+0406", "U+0407", "U+0408", "U+0409", "U+040A",
       "U+040B", "U+040C", "U+040D", "U+040E", "U+040F", "U+0410", "U+0411",
       "U+0412", "U+0413", "U+0414", "U+0415", "U+0416", "U+0417", "U+0418",
       "U+0419", "U+041A", "U+041B", "U+041C", "U+041D", "U+041E", "U+041F",
       "U+0420", "U+0421", "U+0422", "U+0423", "U+0424", "U+0425", "U+0426",
       "U+0427", "U+0428", "U+0429", "U+042A", "U+042B", "U+042C", "U+042D",
       "U+042E", "U+042F", "U+0460", "U+0462", "U+0464", "U+0466", "U+0468",
       "U+046A", "U+046C", "U+046E", "U+0470", "U+0472", "U+0474", "U+0476",
       "U+0478", "U+047A", "U+047C", "U+047E", "U+0480", "U+048A", "U+048C",
       "U+048E", "U+0490", "U+0492", "U+0494", "U+0496", "U+0498", "U+049A",
       "U+049C", "U+049E", "U+04A0", "U+04A2", "U+04A4", "U+04A6", "U+04A8",
       "U+04AA", "U+04AC", "U+04AE", "U+04B0", "U+04B2", "U+04B4", "U+04B6",
       "U+04B8", "U+04BA", "U+04BC", "U+04BE", "U+04C0", "U+04C1", "U+04C3",
       "U+04C5", "U+04C7", "U+04C9", "U+04CB", "U+04CD", "U+04D0", "U+04D2",
       "U+04D4", "U+04D6", "U+04D8", "U+04DA", "U+04DC", "U+04DE", "U+04E0",
       "U+04E2", "U+04E4", "U+04E6", "U+04E8", "U+04EA", "U+04EC", "U+04EE",
       "U+04F0", "U+04F2", "U+04F4", "U+04F6", "U+04F8", "U+04FA", "U+04FC",
       "U+04FE", "U+0500", "U+0502", "U+0504", "U+0506", "U+0508", "U+050A",
       "U+050C", "U+050E", "U+0510", "U+0512", "U+0514", "U+0516", "U+0518",
       "U+051A", "U+051C", "U+051E", "U+0520", "U+0522", "U+0524", "U+0526",
       "U+0528", "U+052A", "U+052C", "U+052E", "U+0531", "U+0532", "U+0533",
       "U+0534", "U+0535", "U+0536", "U+0537", "U+0538", "U+0539", "U+053A",
       "U+053B", "U+053C", "U+053D", "U+053E", "U+053F", "U+0540", "U+0541",
       "U+0542", "U+0543", "U+0544", "U+0545", "U+0546", "U+0547", "U+0548",
       "U+0549", "U+054A", "U+054B", "U+054C", "U+054D", "U+054E", "U+054F",
       "U+0550", "U+0551", "U+0552", "U+0553", "U+0554", "U+0555", "U+0556",
       "U+10A0", "U+10A1", "U+10A2", "U+10A3", "U+10A4", "U+10A5", "U+10A6",
       "U+10A7", "U+10A8", "U+10A9", "U+10AA", "U+10AB", "U+10AC", "U+10AD",
       "U+10AE", "U+10AF", "U+10B0", "U+10B1", "U+10B2", "U+10B3", "U+10B4",
       "U+10B5", "U+10B6", "U+10B7", "U+10B8", "U+10B9", "U+10BA", "U+10BB",
       "U+10BC", "U+10BD", "U+10BE", "U+10BF", "U+10C0", "U+10C1", "U+10C2",
       "U+10C3", "U+10C4", "U+10C5", "U+10C7", "U+10CD", "U+13A0", "U+13A1",
       "U+13A2", "U+13A3", "U+13A4", "U+13A5", "U+13A6", "U+13A7", "U+13A8",
       "U+13A9", "U+13AA", "U+13AB", "U+13AC", "U+13AD", "U+13AE", "U+13AF",
       "U+13B0", "U+13B1", "U+13B2", "U+13B3", "U+13B4", "U+13B5", "U+13B6",
       "U+13B7", "U+13B8", "U+13B9", "U+13BA", "U+13BB", "U+13BC", "U+13BD",
       "U+13BE", "U+13BF", "U+13C0", "U+13C1", "U+13C2", "U+13C3", "U+13C4",
       "U+13C5", "U+13C6", "U+13C7", "U+13C8", "U+13C9", "U+13CA", "U+13CB",
       "U+13CC", "U+13CD", "U+13CE", "U+13CF", "U+13D0", "U+13D1", "U+13D2",
       "U+13D3", "U+13D4", "U+13D5", "U+13D6", "U+13D7", "U+13D8", "U+13D9",
       "U+13DA", "U+13DB", "U+13DC", "U+13DD", "U+13DE", "U+13DF", "U+13E0",
       "U+13E1", "U+13E2", "U+13E3", "U+13E4", "U+13E5", "U+13E6", "U+13E7",
       "U+13E8", "U+13E9", "U+13EA", "U+13EB", "U+13EC", "U+13ED", "U+13EE",
       "U+13EF", "U+13F0", "U+13F1", "U+13F2", "U+13F3", "U+13F4", "U+13F5",
       "U+1C89", "U+1C90", "U+1C91", "U+1C92", "U+1C93", "U+1C94", "U+1C95",
       "U+1C96", "U+1C97", "U+1C98", "U+1C99", "U+1C9A", "U+1C9B", "U+1C9C",
       "U+1C9D", "U+1C9E", "U+1C9F", "U+1CA0", "U+1CA1", "U+1CA2", "U+1CA3",
       "U+1CA4", "U+1CA5", "U+1CA6", "U+1CA7", "U+1CA8", "U+1CA9", "U+1CAA",
       "U+1CAB", "U+1CAC", "U+1CAD", "U+1CAE", "U+1CAF", "U+1CB0", "U+1CB1",
       "U+1CB2", "U+1CB3", "U+1CB4", "U+1CB5", "U+1CB6", "U+1CB7", "U+1CB8",
       "U+1CB9", "U+1CBA", "U+1CBD", "U+1CBE", "U+1CBF", "U+1E00", "U+1E02",
       "U+1E04", "U+1E06", "U+1E08", "U+1E0A", "U+1E0C", "U+1E0E", "U+1E10",
       "U+1E12", "U+1E14", "U+1E16", "U+1E18", "U+1E1A", "U+1E1C", "U+1E1E",
       "U+1E20", "U+1E22", "U+1E24", "U+1E26", "U+1E28", "U+1E2A", "U+1E2C",
       "U+1E2E", "U+1E30", "U+1E32", "U+1E34", "U+1E36", "U+1E38", "U+1E3A",
       "U+1E3C", "U+1E3E", "U+1E40", "U+1E42", "U+1E44", "U+1E46", "U+1E48",
       "U+1E4A", "U+1E4C", "U+1E4E", "U+1E50", "U+1E52", "U+1E54", "U+1E56",
       "U+1E58", "U+1E5A", "U+1E5C", "U+1E5E", "U+1E60", "U+1E62", "U+1E64",
       "U+1E66", "U+1E68", "U+1E6A", "U+1E6C", "U+1E6E", "U+1E70", "U+1E72",
       "U+1E74", "U+1E76", "U+1E78", "U+1E7A", "U+1E7C", "U+1E7E", "U+1E80",
       "U+1E82", "U+1E84", "U+1E86", "U+1E88", "U+1E8A", "U+1E8C", "U+1E8E",
       "U+1E90", "U+1E92", "U+1E94", "U+1E9E", "U+1EA0", "U+1EA2", "U+1EA4",
       "U+1EA6", "U+1EA8", "U+1EAA", "U+1EAC", "U+1EAE", "U+1EB0", "U+1EB2",
       "U+1EB4", "U+1EB6", "U+1EB8", "U+1EBA", "U+1EBC", "U+1EBE", "U+1EC0",
       "U+1EC2", "U+1EC4", "U+1EC6", "U+1EC8", "U+1ECA", "U+1ECC", "U+1ECE",
       "U+1ED0", "U+1ED2", "U+1ED4", "U+1ED6", "U+1ED8", "U+1EDA", "U+1EDC",
       "U+1EDE", "U+1EE0", "U+1EE2", "U+1EE4", "U+1EE6", "U+1EE8", "U+1EEA",
       "U+1EEC", "U+1EEE", "U+1EF0", "U+1EF2", "U+1EF4", "U+1EF6", "U+1EF8",
       "U+1EFA", "U+1EFC", "U+1EFE", "U+1F08", "U+1F09", "U+1F0A", "U+1F0B",
       "U+1F0C", "U+1F0D", "U+1F0E", "U+1F0F", "U+1F18", "U+1F19", "U+1F1A",
       "U+1F1B", "U+1F1C", "U+1F1D", "U+1F28", "U+1F29", "U+1F2A", "U+1F2B",
       "U+1F2C", "U+1F2D", "U+1F2E", "U+1F2F", "U+1F38", "U+1F39", "U+1F3A",
       "U+1F3B", "U+1F3C", "U+1F3D", "U+1F3E", "U+1F3F", "U+1F48", "U+1F49",
       "U+1F4A", "U+1F4B", "U+1F4C", "U+1F4D", "U+1F59", "U+1F5B", "U+1F5D",
       "U+1F5F", "U+1F68", "U+1F69", "U+1F6A", "U+1F6B", "U+1F6C", "U+1F6D",
       "U+1F6E", "U+1F6F", "U+1F88", "U+1F89", "U+1F8A", "U+1F8B", "U+1F8C",
       "U+1F8D", "U+1F8E", "U+1F8F", "U+1F98", "U+1F99", "U+1F9A", "U+1F9B",
       "U+1F9C", "U+1F9D", "U+1F9E", "U+1F9F", "U+1FA8", "U+1FA9", "U+1FAA",
       "U+1FAB", "U+1FAC", "U+1FAD", "U+1FAE", "U+1FAF", "U+1FB8", "U+1FB9",
       "U+1FBA", "U+1FBB", "U+1FBC", "U+1FC8", "U+1FC9", "U+1FCA", "U+1FCB",
       "U+1FCC", "U+1FD8", "U+1FD9", "U+1FDA", "U+1FDB", "U+1FE8", "U+1FE9",
       "U+1FEA", "U+1FEB", "U+1FEC", "U+1FF8", "U+1FF9", "U+1FFA", "U+1FFB",
       "U+1FFC", "U+2126", "U+212A", "U+212B", "U+2132", "U+2160", "U+2161",
       "U+2162", "U+2163", "U+2164", "U+2165", "U+2166", "U+2167", "U+2168",
       "U+2169", "U+216A", "U+216B", "U+216C", "U+216D", "U+216E", "U+216F",
       "U+2183", "U+24B6", "U+24B7", "U+24B8", "U+24B9", "U+24BA", "U+24BB",
       "U+24BC", "U+24BD", "U+24BE", "U+24BF", "U+24C0", "U+24C1", "U+24C2",
       "U+24C3", "U+24C4", "U+24C5", "U+24C6", "U+24C7", "U+24C8", "U+24C9",
       "U+24CA", "U+24CB", "U+24CC", "U+24CD", "U+24CE", "U+24CF", "U+2C00",
       "U+2C01", "U+2C02", "U+2C03", "U+2C04", "U+2C05", "U+2C06", "U+2C07",
       "U+2C08", "U+2C09", "U+2C0A", "U+2C0B", "U+2C0C", "U+2C0D", "U+2C0E",
       "U+2C0F", "U+2C10", "U+2C11", "U+2C12", "U+2C13", "U+2C14", "U+2C15",
       "U+2C16", "U+2C17", "U+2C18", "U+2C19", "U+2C1A", "U+2C1B", "U+2C1C",
       "U+2C1D", "U+2C1E", "U+2C1F", "U+2C20", "U+2C21", "U+2C22", "U+2C23",
       "U+2C24", "U+2C25", "U+2C26", "U+2C27", "U+2C28", "U+2C29", "U+2C2A",
       "U+2C2B", "U+2C2C", "U+2C2D", "U+2C2E", "U+2C2F", "U+2C60", "U+2C62",
       "U+2C63", "U+2C64", "U+2C67", "U+2C69", "U+2C6B", "U+2C6D", "U+2C6E",
       "U+2C6F", "U+2C70", "U+2C72", "U+2C75", "U+2C7E", "U+2C7F", "U+2C80",
       "U+2C82", "U+2C84", "U+2C86", "U+2C88", "U+2C8A", "U+2C8C", "U+2C8E",
       "U+2C90", "U+2C92", "U+2C94", "U+2C96", "U+2C98", "U+2C9A", "U+2C9C",
       "U+2C9E", "U+2CA0", "U+2CA2", "U+2CA4", "U+2CA6", "U+2CA8", "U+2CAA",
       "U+2CAC", "U+2CAE", "U+2CB0", "U+2CB2", "U+2CB4", "U+2CB6", "U+2CB8",
       "U+2CBA", "U+2CBC", "U+2CBE", "U+2CC0", "U+2CC2", "U+2CC4", "U+2CC6",
       "U+2CC8", "U+2CCA", "U+2CCC", "U+2CCE", "U+2CD0", "U+2CD2", "U+2CD4",
       "U+2CD6", "U+2CD8", "U+2CDA", "U+2CDC", "U+2CDE", "U+2CE0", "U+2CE2",
       "U+2CEB", "U+2CED", "U+2CF2", "U+A640", "U+A642", "U+A644", "U+A646",
       "U+A648", "U+A64A", "U+A64C", "U+A64E", "U+A650", "U+A652", "U+A654",
       "U+A656", "U+A658", "U+A65A", "U+A65C", "U+A65E", "U+A660", "U+A662",
       "U+A664", "U+A666", "U+A668", "U+A66A", "U+A66C", "U+A680", "U+A682",
       "U+A684", "U+A686", "U+A688", "U+A68A", "U+A68C", "U+A68E", "U+A690",
       "U+A692", "U+A694", "U+A696", "U+A698", "U+A69A", "U+A722", "U+A724",
       "U+A726", "U+A728", "U+A72A", "U+A72C", "U+A72E", "U+A732", "U+A734",
       "U+A736", "U+A738", "U+A73A", "U+A73C", "U+A73E", "U+A740", "U+A742",
       "U+A744", "U+A746", "U+A748", "U+A74A", "U+A74C", "U+A74E", "U+A750",
       "U+A752", "U+A754", "U+A756", "U+A758", "U+A75A", "U+A75C", "U+A75E",
       "U+A760", "U+A762", "U+A764", "U+A766", "U+A768", "U+A76A", "U+A76C",
       "U+A76E", "U+A779", "U+A77B", "U+A77D", "U+A77E", "U+A780", "U+A782",
       "U+A784", "U+A786", "U+A78B", "U+A78D", "U+A790", "U+A792", "U+A796",
       "U+A798", "U+A79A", "U+A79C", "U+A79E", "U+A7A0", "U+A7A2", "U+A7A4",
       "U+A7A6", "U+A7A8", "U+A7AA", "U+A7AB", "U+A7AC", "U+A7AD", "U+A7AE",
       "U+A7B0", "U+A7B1", "U+A7B2", "U+A7B3", "U+A7B4", "U+A7B6", "U+A7B8",
       "U+A7BA", "U+A7BC", "U+A7BE", "U+A7C0", "U+A7C2", "U+A7C4", "U+A7C5",
       "U+A7C6", "U+A7C7", "U+A7C9", "U+A7CB", "U+A7CC", "U+A7CE", "U+A7D0",
       "U+A7D2", "U+A7D4", "U+A7D6", "U+A7D8", "U+A7DA", "U+A7DC", "U+A7F5",
       "U+FF21", "U+FF22", "U+FF23", "U+FF24", "U+FF25", "U+FF26", "U+FF27",
       "U+FF28", "U+FF29", "U+FF2A", "U+FF2B", "U+FF2C", "U+FF2D", "U+FF2E",
       "U+FF2F", "U+FF30", "U+FF31", "U+FF32", "U+FF33", "U+FF34", "U+FF35",
       "U+FF36", "U+FF37", "U+FF38", "U+FF39", "U+FF3A" >>

LowerLetters ==
    << "a", "b", "c", "d", "e", "f", "g", "h", "i", "j", "k", "l", "m", "n",
       "o", "p", "q", "r", "s", "t", "u", "v", "w", "x", "y", "z", "U+00E0",
       "U+00E1", "U+00E2", "U+00E3", "U+00E4", "U+00E5", "U+00E6", "U+00E7",
       "U+00E8", "U+00E9", "U+00EA", "U+00EB", "U+00EC", "U+00ED", "U+00EE",
       "U+00EF", "U+00F0", "U+00F1", "U+00F2", "U+00F3", "U+00F4", "U+00F5",
       "U+00F6", "U+00F8", "U+00F9", "U+00FA", "U+00FB", "U+00FC", "U+00FD",
       "U+00FE", "U+0101", "U+0103", "U+0105", "U+0107", "U+0109", "U+010B",
       "U+010D", "U+010F", "U+0111", "U+0113", "U+0115", "U+0117", "U+0119",
       "U+011B", "U+011D", "U+011F", "U+0121", "U+0123", "U+0125", "U+0127",
       "U+0129", "U+012B", "U+012D", "U+012F", "U+0133", "U+0135", "U+0137",
       "U+013A", "U+013C", "U+013E", "U+0140", "U+0142", "U+0144", "U+0146",
       "U+0148", "U+014B", "U+014D", "U+014F", "U+0151", "U+0153", "U+0155",
       "U+0157", "U+0159", "U+015B", "U+015D", "U+015F", "U+0161", "U+0163",
       "U+0165", "U+0167", "U+0169", "U+016B", "U+016D", "U+016F", "U+0171",
       "U+0173", "U+0175", "U+0177", "U+00FF", "U+017A", "U+017C", "U+017E",
       "U+0253", "U+0183", "U+0185", "U+0254", "U+0188", "U+0256", "U+0257",
       "U+018C", "U+01DD", "U+0259", "U+025B", "U+0192", "U+0260", "U+0263",
       "U+0269", "U+0268", "U+0199", "U+026F", "U+0272", "U+0275", "U+01A1",
       "U+01A3", "U+01A5", "U+0280", "U+01A8", "U+0283", "U+01AD", "U+0288",
       "U+01B0", "U+028A", "U+028B", "U+01B4", "U+01B6", "U+0292", "U+01B9",
       "U+01BD", "U+01C6", "U+01C6", "U+01C9", "U+01C9", "U+01CC", "U+01CC",
       "U+01CE", "U+01D0", "U+01D2", "U+01D4", "U+01D6", "U+01D8", "U+01DA",
       "U+01DC", "U+01DF", "U+01E1", "U+01E3", "U+01E5", "U+01E7", "U+01E9",
       "U+01EB", "U+01ED", "U+01EF", "U+01F3", "U+01F3", "U+01F5", "U+0195",
       "U+01BF", "U+01F9", "U+01FB", "U+01FD", "U+01FF", "U+0201", "U+0203",
       "U+0205", "U+0207", "U+0209", "U+020B", "U+020D", "U+020F", "U+0211",
       "U+0213", "U+0215", "U+0217", "U+0219", "U+021B", "U+021D", "U+021F",
       "U+019E", "U+0223", "U+0225", "U+0227", "U+0229", "U+022B", "U+022D",
       "U+022F", "U+0231", "U+0233", "U+2C65", "U+023C", "U+019A", "U+2C66",
       "U+0242", "U+0180", "U+0289", "U+028C", "U+0247", "U+0249", "U+024B",
       "U+024D", "U+024F", "U+0371", "U+0373", "U+0377", "U+03F3", "U+03AC",
       "U+03AD", "U+03AE", "U+03AF", "U+03CC", "U+03CD", "U+03CE", "U+03B1",
       "U+03B2", "U+03B3", "U+03B4", "U+03B5", "U+03B6", "U+03B7", "U+03B8",
       "U+03B9", "U+03BA", "U+03BB", "U+03BC", "U+03BD", "U+03BE", "U+03BF",
       "U+03C0", "U+03C1", "U+03C3", "U+03C4", "U+03C5", "U+03C6", "U+03C7",
       "U+03C8", "U+03C9", "U+03CA", "U+03CB", "U+03D7", "U+03D9", "U+03DB",
       "U+03DD", "U+03DF", "U+03E1", "U+03E3", "U+03E5", "U+03E7", "U+03E9",
       "U+03EB", "U+03ED", "U+03EF", "U+03B8", "U+03F8", "U+03F2", "U+03FB",
       "U+037B", "U+037C", "U+037D", "U+0450", "U+0451", "U+0452", "U+0453",
       "U+0454", "U+0455", "U+0456", "U+0457", "U+0458", "U+0459", "U+045A",
       "U+045B", "U+045C", "U+045D", "U+045E", "U+045F", "U+0430", "U+0431",
       "U+0432", "U+0433", "U+0434", "U+0435", "U+0436", "U+0437", "U+0438",
       "U+0439", "U+043A", "U+043B", "U+043C", "U+043D", "U+043E", "U+043F",
       "U+0440", "U+0441", "U+0442", "U+0443", "U+0444", "U+0445", "U+0446",
       "U+0447", "U+0448", "U+0449", "U+044A", "U+044B", "U+044C", "U+044D",
       "U+044E", "U+044F", "U+0461", "U+0463", "U+0465", "U+0467", "U+0469",
       "U+046B", "U+046D", "U+046F", "U+0471", "U+0473", "U+0475", "U+0477",
       "U+0479", "U+047B", "U+047D", "U+047F", "U+0481", "U+048B", "U+048D",
       "U+048F", "U+0491", "U+0493", "U+0495", "U+0497", "U+0499", "U+049B",
       "U+049D", "U+049F", "U+04A1", "U+04A3", "U+04A5", "U+04A7", "U+04A9",
       "U+04AB", "U+04AD", "U+04AF", "U+04B1", "U+04B3", "U+04B5", "U+04B7",
       "U+04B9", "U+04BB", "U+04BD", "U+04BF", "U+04CF", "U+04C2", "U+04C4",
       "U+04C6", "U+04C8", "U+04CA", "U+04CC", "U+04CE", "U+04D1", "U+04D3",
       "U+04D5", "U+04D7", "U+04D9", "U+04DB", "U+04DD", "U+04DF", "U+04E1",
       "U+04E3", "U+04E5", "U+04E7", "U+04E9", "U+04EB", "U+04ED", "U+04EF",
       "U+04F1", "U+04F3", "U+04F5", "U+04F7", "U+04F9", "U+04FB", "U+04FD",
       "U+04FF", "U+0501", "U+0503", "U+0505", "U+0507", "U+0509", "U+050B",
       "U+050D", "U+050F", "U+0511", "U+0513", "U+0515", "U+0517", "U+0519",
       "U+051B", "U+051D", "U+051F", "U+0521", "U+0523", "U+0525", "U+0527",
       "U+0529", "U+052B", "U+052D", "U+052F", "U+0561", "U+0562", "U+0563",
       "U+0564", "U+0565", "U+0566", "U+0567", "U+0568", "U+0569", "U+056A",
       "U+056B", "U+056C", "U+056D", "U+056E", "U+056F", "U+0570", "U+0571",
       "U+0572", "U+0573", "U+0574", "U+0575", "U+0576", "U+0577", "U+0578",
       "U+0579", "U+057A", "U+057B", "U+057C", "U+057D", "U+057E", "U+057F",
       "U+0580", "U+0581", "U+0582", "U+0583", "U+0584", "U+0585", "U+0586",
       "U+2D00", "U+2D01", "U+2D02", "U+2D03", "U+2D04", "U+2D05", "U+2D06",
       "U+2D07", "U+2D08", "U+2D09", "U+2D0A", "U+2D0B", "U+2D0C", "U+2D0D",
       "U+2D0E", "U+2D0F", "U+2D10", "U+2D11", "U+2D12", "U+2D13", "U+2D14",
       "U+2D15", "U+2D16", "U+2D17", "U+2D18", "U+2D19", "U+2D1A", "U+2D1B",
       "U+2D1C", "U+2D1D", "U+2D1E", "U+2D1F", "U+2D20", "U+2D21", "U+2D22",
       "U+2D23", "U+2D24", "U+2D25", "U+2D27", "U+2D2D", "U+AB70", "U+AB71",
       "U+AB72", "U+AB73", "U+AB74", "U+AB75", "U+AB76", "U+AB77", "U+AB78",
       "U+AB79", "U+AB7A", "U+AB7B", "U+AB7C", "U+AB7D", "U+AB7E", "U+AB7F",
       "U+AB80", "U+AB81", "U+AB82", "U+AB83", "U+AB84", "U+AB85", "U+AB86",
       "U+AB87", "U+AB88", "U+AB89", "U+AB8A", "U+AB8B", "U+AB8C", "U+AB8D",
       "U+AB8E", "U+AB8F", "U+AB90", "U+AB91", "U+AB92", "U+AB93", "U+AB94",
       "U+AB95", "U+AB96", "U+AB97", "U+AB98", "U+AB99", "U+AB9A", "U+AB9B",
       "U+AB9C", "U+AB9D", "U+AB9E", "U+AB9F", "U+ABA0", "U+ABA1", "U+ABA2",
       "U+ABA3", "U+ABA4", "U+ABA5", "U+ABA6", "U+ABA7", "U+ABA8", "U+ABA9",
       "U+ABAA", "U+ABAB", "U+ABAC", "U+ABAD", "U+ABAE", "U+ABAF", "U+ABB0",
       "U+ABB1", "U+ABB2", "U+ABB3", "U+ABB4", "U+ABB5", "U+ABB6", "U+ABB7",
       "U+ABB8", "U+ABB9", "U+ABBA", "U+ABBB", "U+ABBC", "U+ABBD", "U+ABBE",
       "U+ABBF", "U+13F8", "U+13F9", "U+13FA", "U+13FB", "U+13FC", "U+13FD",
       "U+1C8A", "U+10D0", "U+10D1", "U+10D2", "U+10D3", "U+10D4", "U+10D5",
       "U+10D6", "U+10D7", "U+10D8", "U+10D9", "U+10DA", "U+10DB", "U+10DC",
       "U+10DD", "U+10DE", "U+10DF", "U+10E0", "U+10E1", "U+10E2", "U+10E3",
       "U+10E4", "U+10E5", "U+10E6", "U+10E7", "U+10E8", "U+10E9", "U+10EA",
       "U+10EB", "U+10EC", "U+10ED", "U+10EE", "U+10EF", "U+10F0", "U+10F1",
       "U+10F2", "U+10F3", "U+10F4", "U+10F5", "U+10F6", "U+10F7", "U+10F8",
       "U+10F9", "U+10FA", "U+10FD", "U+10FE", "U+10FF", "U+1E01", "U+1E03",
       "U+1E05", "U+1E07", "U+1E09", "U+1E0B", "U+1E0D", "U+1E0F", "U+1E11",
       "U+1E13", "U+1E15", "U+1E17", "U+1E19", "U+1E1B", "U+1E1D", "U+1E1F",
       "U+1E21", "U+1E23", "U+1E25", "U+1E27", "U+1E29", "U+1E2B", "U+1E2D",
       "U+1E2F", "U+1E31", "U+1E33", "U+1E35", "U+1E37", "U+1E39", "U+1E3B",
       "U+1E3D", "U+1E3F", "U+1E41", "U+1E43", "U+1E45", "U+1E47", "U+1E49",
       "U+1E4B", "U+1E4D", "U+1E4F", "U+1E51", "U+1E53", "U+1E55", "U+1E57",
       "U+1E59", "U+1E5B", "U+1E5D", "U+1E5F", "U+1E61", "U+1E63", "U+1E65",
       "U+1E67", "U+1E69", "U+1E6B", "U+1E6D", "U+1E6F", "U+1E71", "U+1E73",
       "U+1E75", "U+1E77", "U+1E79", "U+1E7B", "U+1E7D", "U+1E7F", "U+1E81",
       "U+1E83", "U+1E85", "U+1E87", "U+1E89", "U+1E8B", "U+1E8D", "U+1E8F",
       "U+1E91", "U+1E93", "U+1E95", "U+00DF", "U+1EA1", "U+1EA3", "U+1EA5",
       "U+1EA7", "U+1EA9", "U+1EAB", "U+1EAD", "U+1EAF", "U+1EB1", "U+1EB3",
       "U+1EB5", "U+1EB7", "U+1EB9", "U+1EBB", "U+1EBD", "U+1EBF", "U+1EC1",
       "U+1EC3", "U+1EC5", "U+1EC7", "U+1EC9", "U+1ECB", "U+1ECD", "U+1ECF",
       "U+1ED1", "U+1ED3", "U+1ED5", "U+1ED7", "U+1ED9", "U+1EDB", "U+1EDD",
       "U+1EDF", "U+1EE1", "U+1EE3", "U+1EE5", "U+1EE7", "U+1EE9", "U+1EEB",
       "U+1EED", "U+1EEF", "U+1EF1", "U+1EF3", "U+1EF5", "U+1EF7", "U+1EF9",
       "U+1EFB", "U+1EFD", "U+1EFF", "U+1F00", "U+1F01", "U+1F02", "U+1F03",
       "U+1F04", "U+1F05", "U+1F06", "U+1F07", "U+1F10", "U+1F11", "U+1F12",
       "U+1F13", "U+1F14", "U+1F15", "U+1F20", "U+1F21", "U+1F22", "U+1F23",
       "U+1F24", "U+1F25", "U+1F26", "U+1F27", "U+1F30", "U+1F31", "U+1F32",
       "U+1F33", "U+1F34", "U+1F35", "U+1F36", "U+1F37", "U+1F40", "U+1F41",
       "U+1F42", "U+1F43", "U+1F44", "U+1F45", "U+1F51", "U+1F53", "U+1F55",
       "U+1F57", "U+1F60", "U+1F61", "U+1F62", "U+1F63", "U+1F64", "U+1F65",
       "U+1F66", "U+1F67", "U+1F80", "U+1F81", "U+1F82", "U+1F83", "U+1F84",
       "U+1F85", "U+1F86", "U+1F87", "U+1F90", "U+1F91", "U+1F92", "U+1F93",
       "U+1F94", "U+1F95", "U+1F96", "U+1F97", "U+1FA0", "U+1FA1", "U+1FA2",
       "U+1FA3", "U+1FA4", "U+1FA5", "U+1FA6", "U+1FA7", "U+1FB0", "U+1FB1",
       "U+1F70", "U+1F71", "U+1FB3", "U+1F72", "U+1F73", "U+1F74", "U+1F75",
       "U+1FC3", "U+1FD0", "U+1FD1", "U+1F76", "U+1F77", "U+1FE0", "U+1FE1",
       "U+1F7A", "U+1F7B", "U+1FE5", "U+1F78", "U+1F79", "U+1F7C", "U+1F7D",
       "U+1FF3", "U+03C9", "k", "U+00E5", "U+214E", "U+2170", "U+2171",
       "U+2172", "U+2173", "U+2174", "U+2175", "U+2176", "U+2177", "U+2178",
       "U+2179", "U+217A", "U+217B", "U+217C", "U+217D", "U+217E", "U+217F",
       "U+2184", "U+24D0", "U+24D1", "U+24D2", "U+24D3", "U+24D4", "U+24D5",
       "U+24D6", "U+24D7", "U+24D8", "U+24D9", "U+24DA", "U+24DB", "U+24DC",
       "U+24DD", "U+24DE", "U+24DF", "U+24E0", "U+24E1", "U+24E2", "U+24E3",
       "U+24E4", "U+24E5", "U+24E6", "U+24E7", "U+24E8", "U+24E9", "U+2C30",
       "U+2C31", "U+2C32", "U+2C33", "U+2C34", "U+2C35", "U+2C36", "U+2C37",
       "U+2C38", "U+2C39", "U+2C3A", "U+2C3B", "U+2C3C", "U+2C3D", "U+2C3E",
       "U+2C3F", "U+2C40", "U+2C41", "U+2C42", "U+2C43", "U+2C44", "U+2C45",
       "U+2C46", "U+2C47", "U+2C48", "U+2C49", "U+2C4A", "U+2C4B", "U+2C4C",
       "U+2C4D", "U+2C4E", "U+2C4F", "U+2C50", "U+2C51", "U+2C52", "U+2C53",
       "U+2C54", "U+2C55", "U+2C56", "U+2C57", "U+2C58", "U+2C59", "U+2C5A",
       "U+2C5B", "U+2C5C", "U+2C5D", "U+2C5E", "U+2C5F", "U+2C61", "U+026B",
       "U+1D7D", "U+027D", "U+2C68", "U+2C6A", "U+2C6C", "U+0251", "U+0271",
       "U+0250", "U+0252", "U+2C73", "U+2C76", "U+023F", "U+0240", "U+2C81",
       "U+2C83", "U+2C85", "U+2C87", "U+2C89", "U+2C8B", "U+2C8D", "U+2C8F",
       "U+2C91", "U+2C93", "U+2C95", "U+2C97", "U+2C99", "U+2C9B", "U+2C9D",
       "U+2C9F", "U+2CA1", "U+2CA3", "U+2CA5", "U+2CA7", "U+2CA9", "U+2CAB",
       "U+2CAD", "U+2CAF", "U+2CB1", "U+2CB3", "U+2CB5", "U+2CB7", "U+2CB9",
       "U+2CBB", "U+2CBD", "U+2CBF", "U+2CC1", "U+2CC3", "U+2CC5", "U+2CC7",
       "U+2CC9", "U+2CCB", "U+2CCD", "U+2CCF", "U+2CD1", "U+2CD3", "U+2CD5",
       "U+2CD7", "U+2CD9", "U+2CDB", "U+2CDD", "U+2CDF", "U+2CE1", "U+2CE3",
       "U+2CEC", "U+2CEE", "U+2CF3", "U+A641", "U+A643", "U+A645", "U+A647",
       "U+A649", "U+A64B", "U+A64D", "U+A64F", "U+A651", "U+A653", "U+A655",
       "U+A657", "U+A659", "U+A65B", "U+A65D", "U+A65F", "U+A661", "U+A663",
       "U+A665", "U+A667", "U+A669", "U+A66B", "U+A66D", "U+A681", "U+A683",
       "U+A685", "U+A687", "U+A689", "U+A68B", "U+A68D", "U+A68F", "U+A691",
       "U+A693", "U+A695", "U+A697", "U+A699", "U+A69B", "U+A723", "U+A725",
       "U+A727", "U+A729", "U+A72B", "U+A72D", "U+A72F", "U+A733", "U+A735",
       "U+A737", "U+A739", "U+A73B", "U+A73D", "U+A73F", "U+A741", "U+A743",
       "U+A745", "U+A747", "U+A749", "U+A74B", "U+A74D", "U+A74F", "U+A751",
       "U+A753", "U+A755", "U+A757", "U+A759", "U+A75B", "U+A75D", "U+A75F",
       "U+A761", "U+A763", "U+A765", "U+A767", "U+A769", "U+A76B", "U+A76D",
       "U+A76F", "U+A77A", "U+A77C", "U+1D79", "U+A77F", "U+A781", "U+A783",
       "U+A785", "U+A787", "U+A78C", "U+0265", "U+A791", "U+A793", "U+A797",
       "U+A799", "U+A79B", "U+A79D", "U+A79F", "U+A7A1", "U+A7A3", "U+A7A5",
       "U+A7A7", "U+A7A9", "U+0266", "U+025C", "U+0261", "U+026C", "U+026A",
       "U+029E", "U+0287", "U+029D", "U+AB53", "U+A7B5", "U+A7B7", "U+A7B9",
       "U+A7BB", "U+A7BD", "U+A7BF", "U+A7C1", "U+A7C3", "U+A794", "U+0282",
       "U+1D8E", "U+A7C8", "U+A7CA", "U+0264", "U+A7CD", "U+A7CF", "U+A7D1",
       "U+A7D3", "U+A7D5", "U+A7D7", "U+A7D9", "U+A7DB", "U+019B", "U+A7F6",
       "U+FF41", "U+FF42", "U+FF43", "U+FF44", "U+FF45", "U+FF46", "U+FF47",
       "U+FF48", "U+FF49", "U+FF4A", "U+FF4B", "U+FF4C", "U+FF4D", "U+FF4E",
       "U+FF4F", "U+FF50", "U+FF51", "U+FF52", "U+FF53", "U+FF54", "U+FF55",
       "U+FF56", "U+FF57", "U+FF58", "U+FF59", "U+FF5A" >>

\* the characters toLowerCase takes for cased letters when it looks at the
\* neighbours of a capital sigma: Cased and not Case_Ignorable (U+0295 is a
\* letter without case)
CasedLetters ==
    { "A", "B", "C", "D", "E", "F", "G", "H", "I", "J", "K", "L", "M", "N",
       "O", "P", "Q", "R", "S", "T", "U", "V", "W", "X", "Y", "Z", "a", "b",
       "c", "d", "e", "f", "g", "h", "i", "j", "k", "l", "m", "n", "o", "p",
       "q", "r", "s", "t", "u", "v", "w", "x", "y", "z", "U+00AA", "U+00B5",
       "U+00BA", "U+00C0", "U+00C1", "U+00C2", "U+00C3", "U+00C4", "U+00C5",
       "U+00C6", "U+00C7", "U+00C8", "U+00C9", "U+00CA", "U+00CB", "U+00CC",
       "U+00CD", "U+00CE", "U+00CF", "U+00D0", "U+00D1", "U+00D2", "U+00D3",
       "U+00D4", "U+00D5", "U+00D6", "U+00D8", "U+00D9", "U+00DA", "U+00DB",
       "U+00DC", "U+00DD", "U+00DE", "U+00DF", "U+00E0", "U+00E1", "U+00E2",
       "U+00E3", "U+00E4", "U+00E5", "U+00E6", "U+00E7", "U+00E8", "U+00E9",
       "U+00EA", "U+00EB", "U+00EC", "U+00ED", "U+00EE", "U+00EF", "U+00F0",
       "U+00F1", "U+00F2", "U+00F3", "U+00F4", "U+00F5", "U+00F6", "U+00F8",
       "U+00F9", "U+00FA", "U+00FB", "U+00FC", "U+00FD", "U+00FE", "U+00FF",
       "U+0100", "U+0101", "U+0102", "U+0103", "U+0104", "U+0105", "U+0106",
       "U+0107", "U+0108", "U+0109", "U+010A", "U+010B", "U+010C", "U+010D",
       "U+010E", "U+010F", "U+0110", "U+0111", "U+0112", "U+0113", "U+0114",
       "U+0115", "U+0116", "U+0117", "U+0118", "U+0119", "U+011A", "U+011B",
       "U+011C", "U+011D", "U+011E", "U+011F", "U+0120", "U+0121", "U+0122",
       "U+0123", "U+0124", "U+0125", "U+0126", "U+0127", "U+0128", "U+0129",
       "U+012A", "U+012B", "U+012C", "U+012D", "U+012E", "U+012F", "U+0130",
       "U+0131", "U+0132", "U+0133", "U+0134", "U+0135", "U+0136", "U+0137",
       "U+0138", "U+0139", "U+013A", "U+013B", "U+013C", "U+013D", "U+013E",
       "U+013F", "U+0140", "U+0141", "U+0142", "U+0143", "U+0144", "U+0145",
       "U+0146", "U+0147", "U+0148", "U+0149", "U+014A", "U+014B", "U+014C",
       "U+014D", "U+014E", "U+014F", "U+0150", "U+0151", "U+0152", "U+0153",
       "U+0154", "U+0155", "U+0156", "U+0157", "U+0158", "U+0159", "U+015A",
       "U+015B", "U+015C", "U+015D", "U+015E", "U+015F", "U+0160", "U+0161",
       "U+0162", "U+0163", "U+0164", "U+0165", "U+0166", "U+0167", "U+0168",
       "U+0169", "U+016A", "U+016B", "U+016C", "U+016D", "U+016E", "U+016F",
       "U+0170", "U+0171", "U+0172", "U+0173", "U+0174", "U+0175", "U+0176",
       "U+0177", "U+0178", "U+0179", "U+017A", "U+017B", "U+017C", "U+017D",
       "U+017E", "U+017F", "U+0180", "U+0181", "U+0182", "U+0183", "U+0184",
       "U+0185", "U+0186", "U+0187", "U+0188", "U+0189", "U+018A", "U+018B",
       "U+018C", "U+018D", "U+018E", "U+018F", "U+0190", "U+0191", "U+0192",
       "U+0193", "U+0194", "U+0195", "U+0196", "U+0197", "U+0198", "U+0199",
       "U+019A", "U+019B", "U+019C", "U+019D", "U+019E", "U+019F", "U+01A0",
       "U+01A1", "U+01A2", "U+01A3", "U+01A4", "U+01A5", "U+01A6", "U+01A7",
       "U+01A8", "U+01A9", "U+01AA", "U+01AB", "U+01AC", "U+01AD", "U+01AE",
       "U+01AF", "U+01B0", "U+01B1", "U+01B2", "U+01B3", "U+01B4", "U+01B5",
       "U+01B6", "U+01B7", "U+01B8", "U+01B9", "U+01BA", "U+01BC", "U+01BD",
       "U+01BE", "U+01BF", "U+01C4", "U+01C5", "U+01C6", "U+01C7", "U+01C8",
       "U+01C9", "U+01CA", "U+01CB", "U+01CC", "U+01CD", "U+01CE", "U+01CF",
       "U+01D0", "U+01D1", "U+01D2", "U+01D3", "U+01D4", "U+01D5", "U+01D6",
       "U+01D7", "U+01D8", "U+01D9", "U+01DA", "U+01DB", "U+01DC", "U+01DD",
       "U+01DE", "U+01DF", "U+01E0", "U+01E1", "U+01E2", "U+01E3", "U+01E4",
       "U+01E5", "U+01E6", "U+01E7", "U+01E8", "U+01E9", "U+01EA", "U+01EB",
       "U+01EC", "U+01ED", "U+01EE", "U+01EF", "U+01F0", "U+01F1", "U+01F2",
       "U+01F3", "U+01F4", "U+01F5", "U+01F6", "U+01F7", "U+01F8", "U+01F9",
       "U+01FA", "U+01FB", "U+01FC", "U+01FD", "U+01FE", "U+01FF", "U+0200",
       "U+0201", "U+0202", "U+0203", "U+0204", "U+0205", "U+0206", "U+0207",
       "U+0208", "U+0209", "U+020A", "U+020B", "U+020C", "U+020D", "U+020E",
       "U+020F", "U+0210", "U+0211", "U+0212", "U+0213", "U+0214", "U+0215",
       "U+0216", "U+0217", "U+0218", "U+0219", "U+021A", "U+021B", "U+021C",
       "U+021D", "U+021E", "U+021F", "U+0220", "U+0221", "U+0222", "U+0223",
       "U+0224", "U+0225", "U+0226", "U+0227", "U+0228", "U+0229", "U+022A",
       "U+022B", "U+022C", "U+022D", "U+022E", "U+022F", "U+0230", "U+0231",
       "U+0232", "U+0233", "U+0234", "U+0235", "U+0236", "U+0237", "U+0238",
       "U+0239", "U+023A", "U+023B", "U+023C", "U+023D", "U+023E", "U+023F",
       "U+0240", "U+0241", "U+0242", "U+0243", "U+0244", "U+0245", "U+0246",
       "U+0247", "U+0248", "U+0249", "U+024A", "U+024B", "U+024C", "U+024D",
       "U+024E", "U+024F", "U+0250", "U+0251", "U+0252", "U+0253", "U+0254",
       "U+0255", "U+0256", "U+0257", "U+0258", "U+0259", "U+025A", "U+025B",
       "U+025C", "U+025D", "U+025E", "U+025F", "U+0260", "U+0261", "U+0262",
       "U+0263", "U+0264", "U+0265", "U+0266", "U+0267", "U+0268", "U+0269",
       "U+026A", "U+026B", "U+026C", "U+026D", "U+026E", "U+026F", "U+0270",
       "U+0271", "U+0272", "U+0273", "U+0274", "U+0275", "U+0276", "U+0277",
       "U+0278", "U+0279", "U+027A", "U+027B", "U+027C", "U+027D", "U+027E",
       "U+027F", "U+0280", "U+0281", "U+0282", "U+0283", "U+0284", "U+0285",
       "U+0286", "U+0287", "U+0288", "U+0289", "U+028A", "U+028B", "U+028C",
       "U+028D", "U+028E", "U+028F", "U+0290", "U+0291", "U+0292", "U+0293",
       "U+0296", "U+0297", "U+0298", "U+0299", "U+029A", "U+029B", "U+029C",
       "U+029D", "U+029E", "U+029F", "U+02A0", "U+02A1", "U+02A2", "U+02A3",
       "U+02A4", "U+02A5", "U+02A6", "U+02A7", "U+02A8", "U+02A9", "U+02AA",
       "U+02AB", "U+02AC", "U+02AD", "U+02AE", "U+02AF", "U+0370", "U+0371",
       "U+0372", "U+0373", "U+0376", "U+0377", "U+037B", "U+037C", "U+037D",
       "U+037F", "U+0386", "U+0388", "U+0389", "U+038A", "U+038C", "U+038E",
       "U+038F", "U+0390", "U+0391", "U+0392", "U+0393", "U+0394", "U+0395",
       "U+0396", "U+0397", "U+0398", "U+0399", "U+039A", "U+039B", "U+039C",
       "U+039D", "U+039E", "U+039F", "U+03A0", "U+03A1", "U+03A3", "U+03A4",
       "U+03A5", "U+03A6", "U+03A7", "U+03A8", "U+03A9", "U+03AA", "U+03AB",
       "U+03AC", "U+03AD", "U+03AE", "U+03AF", "U+03B0", "U+03B1", "U+03B2",
       "U+03B3", "U+03B4", "U+03B5", "U+03B6", "U+03B7", "U+03B8", "U+03B9",
       "U+03BA", "U+03BB", "U+03BC", "U+03BD", "U+03BE", "U+03BF", "U+03C0",
       "U+03C1", "U+03C2", "U+03C3", "U+03C4", "U+03C5", "U+03C6", "U+03C7",
       "U+03C8", "U+03C9", "U+03CA", "U+03CB", "U+03CC", "U+03CD", "U+03CE",
       "U+03CF", "U+03D0", "U+03D1", "U+03D2", "U+03D3", "U+03D4", "U+03D5",
       "U+03D6", "U+03D7", "U+03D8", "U+03D9", "U+03DA", "U+03DB", "U+03DC",
       "U+03DD", "U+03DE", "U+03DF", "U+03E0", "U+03E1", "U+03E2", "U+03E3",
       "U+03E4", "U+03E5", "U+03E6", "U+03E7", "U+03E8", "U+03E9", "U+03EA",
       "U+03EB", "U+03EC", "U+03ED", "U+03EE", "U+03EF", "U+03F0", "U+03F1",
       "U+03F2", "U+03F3", "U+03F4", "U+03F5", "U+03F7", "U+03F8", "U+03F9",
       "U+03FA", "U+03FB", "U+03FC", "U+03FD", "U+03FE", "U+03FF", "U+0400",
       "U+0401", "U+0402", "U+0403", "U+0404", "U+0405", "U+0406", "U+0407",
       "U+0408", "U+0409", "U+040A", "U+040B", "U+040C", "U+040D", "U+040E",
       "U+040F", "U+0410", "U+0411", "U+0412", "U+0413", "U+0414", "U+0415",
       "U+0416", "U+0417", "U+0418", "U+0419", "U+041A", "U+041B", "U+041C",
       "U+041D", "U+041E", "U+041F", "U+0420", "U+0421", "U+0422", "U+0423",
       "U+0424", "U+0425", "U+0426", "U+0427", "U+0428", "U+0429", "U+042A",
       "U+042B", "U+042C", "U+042D", "U+042E", "U+042F", "U+0430", "U+0431",
       "U+0432", "U+0433", "U+0434", "U+0435", "U+0436", "U+0437", "U+0438",
       "U+0439", "U+043A", "U+043B", "U+043C", "U+043D", "U+043E", "U+043F",
       "U+0440", "U+0441", "U+0442", "U+0443", "U+0444", "U+0445", "U+0446",
       "U+0447", "U+0448", "U+0449", "U+044A", "U+044B", "U+044C", "U+044D",
       "U+044E", "U+044F", "U+0450", "U+0451", "U+0452", "U+0453", "U+0454",
       "U+0455", "U+0456", "U+0457", "U+0458", "U+0459", "U+045A", "U+045B",
       "U+045C", "U+045D", "U+045E", "U+045F", "U+0460", "U+0461", "U+0462",
       "U+0463", "U+0464", "U+0465", "U+0466", "U+0467", "U+0468", "U+0469",
       "U+046A", "U+046B", "U+046C", "U+046D", "U+046E", "U+046F", "U+0470",
       "U+0471", "U+0472", "U+0473", "U+0474", "U+0475", "U+0476", "U+0477",
       "U+0478", "U+0479", "U+047A", "U+047B", "U+047C", "U+047D", "U+047E",
       "U+047F", "U+0480", "U+0481", "U+048A", "U+048B", "U+048C", "U+048D",
       "U+048E", "U+048F", "U+0490", "U+0491", "U+0492", "U+0493", "U+0494",
       "U+0495", "U+0496", "U+0497", "U+0498", "U+0499", "U+049A", "U+049B",
       "U+049C", "U+049D", "U+049E", "U+049F", "U+04A0", "U+04A1", "U+04A2",
       "U+04A3", "U+04A4", "U+04A5", "U+04A6", "U+04A7", "U+04A8", "U+04A9",
       "U+04AA", "U+04AB", "U+04AC", "U+04AD", "U+04AE", "U+04AF", "U+04B0",
       "U+04B1", "U+04B2", "U+04B3", "U+04B4", "U+04B5", "U+04B6", "U+04B7",
       "U+04B8", "U+04B9", "U+04BA", "U+04BB", "U+04BC", "U+04BD", "U+04BE",
       "U+04BF", "U+04C0", "U+04C1", "U+04C2", "U+04C3", "U+04C4", "U+04C5",
       "U+04C6", "U+04C7", "U+04C8", "U+04C9", "U+04CA", "U+04CB", "U+04CC",
       "U+04CD", "U+04CE", "U+04CF", "U+04D0", "U+04D1", "U+04D2", "U+04D3",
       "U+04D4", "U+04D5", "U+04D6", "U+04D7", "U+04D8", "U+04D9", "U+04DA",
       "U+04DB", "U+04DC", "U+04DD", "U+04DE", "U+04DF", "U+04E0", "U+04E1",
       "U+04E2", "U+04E3", "U+04E4", "U+04E5", "U+04E6", "U+04E7", "U+04E8",
       "U+04E9", "U+04EA", "U+04EB", "U+04EC", "U+04ED", "U+04EE", "U+04EF",
       "U+04F0", "U+04F1", "U+04F2", "U+04F3", "U+04F4", "U+04F5", "U+04F6",
       "U+04F7", "U+04F8", "U+04F9", "U+04FA", "U+04FB", "U+04FC", "U+04FD",
       "U+04FE", "U+04FF", "U+0500", "U+0501", "U+0502", "U+0503", "U+0504",
       "U+0505", "U+0506", "U+0507", "U+0508", "U+0509", "U+050A", "U+050B",
       "U+050C", "U+050D", "U+050E", "U+050F", "U+0510", "U+0511", "U+0512",
       "U+0513", "U+0514", "U+0515", "U+0516", "U+0517", "U+0518", "U+0519",
       "U+051A", "U+051B", "U+051C", "U+051D", "U+051E", "U+051F", "U+0520",
       "U+0521", "U+0522", "U+0523", "U+0524", "U+0525", "U+0526", "U+0527",
       "U+0528", "U+0529", "U+052A", "U+052B", "U+052C", "U+052D", "U+052E",
       "U+052F", "U+0531", "U+0532", "U+0533", "U+0534", "U+0535", "U+0536",
       "U+0537", "U+0538", "U+0539", "U+053A", "U+053B", "U+053C", "U+053D",
       "U+053E", "U+053F", "U+0540", "U+0541", "U+0542", "U+0543", "U+0544",
       "U+0545", "U+0546", "U+0547", "U+0548", "U+0549", "U+054A", "U+054B",
       "U+054C", "U+054D", "U+054E", "U+054F", "U+0550", "U+0551", "U+0552",
       "U+0553", "U+0554", "U+0555", "U+0556", "U+0560", "U+0561", "U+0562",
       "U+0563", "U+0564", "U+0565", "U+0566", "U+0567", "U+0568", "U+0569",
       "U+056A", "U+056B", "U+056C", "U+056D", "U+056E", "U+056F", "U+0570",
       "U+0571", "U+0572", "U+0573", "U+0574", "U+0575", "U+0576", "U+0577",
       "U+0578", "U+0579", "U+057A", "U+057B", "U+057C", "U+057D", "U+057E",
       "U+057F", "U+0580", "U+0581", "U+0582", "U+0583", "U+0584", "U+0585",
       "U+0586", "U+0587", "U+0588", "U+10A0", "U+10A1", "U+10A2", "U+10A3",
       "U+10A4", "U+10A5", "U+10A6", "U+10A7", "U+10A8", "U+10A9", "U+10AA",
       "U+10AB", "U+10AC", "U+10AD", "U+10AE", "U+10AF", "U+10B0", "U+10B1",
       "U+10B2", "U+10B3", "U+10B4", "U+10B5", "U+10B6", "U+10B7", "U+10B8",
       "U+10B9", "U+10BA", "U+10BB", "U+10BC", "U+10BD", "U+10BE", "U+10BF",
       "U+10C0", "U+10C1", "U+10C2", "U+10C3", "U+10C4", "U+10C5", "U+10C7",
       "U+10CD", "U+10D0", "U+10D1", "U+10D2", "U+10D3", "U+10D4", "U+10D5",
       "U+10D6", "U+10D7", "U+10D8", "U+10D9", "U+10DA", "U+10DB", "U+10DC",
       "U+10DD", "U+10DE", "U+10DF", "U+10E0", "U+10E1", "U+10E2", "U+10E3",
       "U+10E4", "U+10E5", "U+10E6", "U+10E7", "U+10E8", "U+10E9", "U+10EA",
       "U+10EB", "U+10EC", "U+10ED", "U+10EE", "U+10EF", "U+10F0", "U+10F1",
       "U+10F2", "U+10F3", "U+10F4", "U+10F5", "U+10F6", "U+10F7", "U+10F8",
       "U+10F9", "U+10FA", "U+10FD", "U+10FE", "U+10FF", "U+13A0", "U+13A1",
       "U+13A2", "U+13A3", "U+13A4", "U+13A5", "U+13A6", "U+13A7", "U+13A8",
       "U+13A9", "U+13AA", "U+13AB", "U+13AC", "U+13AD", "U+13AE", "U+13AF",
       "U+13B0", "U+13B1", "U+13B2", "U+13B3", "U+13B4", "U+13B5", "U+13B6",
       "U+13B7", "U+13B8", "U+13B9", "U+13BA", "U+13BB", "U+13BC", "U+13BD",
       "U+13BE", "U+13BF", "U+13C0", "U+13C1", "U+13C2", "U+13C3", "U+13C4",
       "U+13C5", "U+13C6", "U+13C7", "U+13C8", "U+13C9", "U+13CA", "U+13CB",
       "U+13CC", "U+13CD", "U+13CE", "U+13CF", "U+13D0", "U+13D1", "U+13D2",
       "U+13D3", "U+13D4", "U+13D5", "U+13D6", "U+13D7", "U+13D8", "U+13D9",
       "U+13DA", "U+13DB", "U+13DC", "U+13DD", "U+13DE", "U+13DF", "U+13E0",
       "U+13E1", "U+13E2", "U+13E3", "U+13E4", "U+13E5", "U+13E6", "U+13E7",
       "U+13E8", "U+13E9", "U+13EA", "U+13EB", "U+13EC", "U+13ED", "U+13EE",
       "U+13EF", "U+13F0", "U+13F1", "U+13F2", "U+13F3", "U+13F4", "U+13F5",
       "U+13F8", "U+13F9", "U+13FA", "U+13FB", "U+13FC", "U+13FD", "U+1C80",
       "U+1C81", "U+1C82", "U+1C83", "U+1C84", "U+1C85", "U+1C86", "U+1C87",
       "U+1C88", "U+1C89", "U+1C8A", "U+1C90", "U+1C91", "U+1C92", "U+1C93",
       "U+1C94", "U+1C95", "U+1C96", "U+1C97", "U+1C98", "U+1C99", "U+1C9A",
       "U+1C9B", "U+1C9C", "U+1C9D", "U+1C9E", "U+1C9F", "U+1CA0", "U+1CA1",
       "U+1CA2", "U+1CA3", "U+1CA4", "U+1CA5", "U+1CA6", "U+1CA7", "U+1CA8",
       "U+1CA9", "U+1CAA", "U+1CAB", "U+1CAC", "U+1CAD", "U+1CAE", "U+1CAF",
       "U+1CB0", "U+1CB1", "U+1CB2", "U+1CB3", "U+1CB4", "U+1CB5", "U+1CB6",
       "U+1CB7", "U+1CB8", "U+1CB9", "U+1CBA", "U+1CBD", "U+1CBE", "U+1CBF",
       "U+1D00", "U+1D01", "U+1D02", "U+1D03", "U+1D04", "U+1D05", "U+1D06",
       "U+1D07", "U+1D08", "U+1D09", "U+1D0A", "U+1D0B", "U+1D0C", "U+1D0D",
       "U+1D0E", "U+1D0F", "U+1D10", "U+1D11", "U+1D12", "U+1D13", "U+1D14",
       "U+1D15", "U+1D16", "U+1D17", "U+1D18", "U+1D19", "U+1D1A", "U+1D1B",
       "U+1D1C", "U+1D1D", "U+1D1E", "U+1D1F", "U+1D20", "U+1D21", "U+1D22",
       "U+1D23", "U+1D24", "U+1D25", "U+1D26", "U+1D27", "U+1D28", "U+1D29",
       "U+1D2A", "U+1D2B", "U+1D6B", "U+1D6C", "U+1D6D", "U+1D6E", "U+1D6F",
       "U+1D70", "U+1D71", "U+1D72", "U+1D73", "U+1D74", "U+1D75", "U+1D76",
       "U+1D77", "U+1D79", "U+1D7A", "U+1D7B", "U+1D7C", "U+1D7D", "U+1D7E",
       "U+1D7F", "U+1D80", "U+1D81", "U+1D82", "U+1D83", "U+1D84", "U+1D85",
       "U+1D86", "U+1D87", "U+1D88", "U+1D89", "U+1D8A", "U+1D8B", "U+1D8C",
       "U+1D8D", "U+1D8E", "U+1D8F", "U+1D90", "U+1D91", "U+1D92", "U+1D93",
       "U+1D94", "U+1D95", "U+1D96", "U+1D97", "U+1D98", "U+1D99", "U+1D9A",
       "U+1E00", "U+1E01", "U+1E02", "U+1E03", "U+1E04", "U+1E05", "U+1E06",
       "U+1E07", "U+1E08", "U+1E09", "U+1E0A", "U+1E0B", "U+1E0C", "U+1E0D",
       "U+1E0E", "U+1E0F", "U+1E10", "U+1E11", "U+1E12", "U+1E13", "U+1E14",
       "U+1E15", "U+1E16", "U+1E17", "U+1E18", "U+1E19", "U+1E1A", "U+1E1B",
       "U+1E1C", "U+1E1D", "U+1E1E", "U+1E1F", "U+1E20", "U+1E21", "U+1E22",
       "U+1E23", "U+1E24", "U+1E25", "U+1E26", "U+1E27", "U+1E28", "U+1E29",
       "U+1E2A", "U+1E2B", "U+1E2C", "U+1E2D", "U+1E2E", "U+1E2F", "U+1E30",
       "U+1E31", "U+1E32", "U+1E33", "U+1E34", "U+1E35", "U+1E36", "U+1E37",
       "U+1E38", "U+1E39", "U+1E3A", "U+1E3B", "U+1E3C", "U+1E3D", "U+1E3E",
       "U+1E3F", "U+1E40", "U+1E41", "U+1E42", "U+1E43", "U+1E44", "U+1E45",
       "U+1E46", "U+1E47", "U+1E48", "U+1E49", "U+1E4A", "U+1E4B", "U+1E4C",
       "U+1E4D", "U+1E4E", "U+1E4F", "U+1E50", "U+1E51", "U+1E52", "U+1E53",
       "U+1E54", "U+1E55", "U+1E56", "U+1E57", "U+1E58", "U+1E59", "U+1E5A",
       "U+1E5B", "U+1E5C", "U+1E5D", "U+1E5E", "U+1E5F", "U+1E60", "U+1E61",
       "U+1E62", "U+1E63", "U+1E64", "U+1E65", "U+1E66", "U+1E67", "U+1E68",
       "U+1E69", "U+1E6A", "U+1E6B", "U+1E6C", "U+1E6D", "U+1E6E", "U+1E6F",
       "U+1E70", "U+1E71", "U+1E72", "U+1E73", "U+1E74", "U+1E75", "U+1E76",
       "U+1E77", "U+1E78", "U+1E79", "U+1E7A", "U+1E7B", "U+1E7C", "U+1E7D",
       "U+1E7E", "U+1E7F", "U+1E80", "U+1E81", "U+1E82", "U+1E83", "U+1E84",
       "U+1E85", "U+1E86", "U+1E87", "U+1E88", "U+1E89", "U+1E8A", "U+1E8B",
       "U+1E8C", "U+1E8D", "U+1E8E", "U+1E8F", "U+1E90", "U+1E91", "U+1E92",
       "U+1E93", "U+1E94", "U+1E95", "U+1E96", "U+1E97", "U+1E98", "U+1E99",
       "U+1E9A", "U+1E9B", "U+1E9C", "U+1E9D", "U+1E9E", "U+1E9F", "U+1EA0",
       "U+1EA1", "U+1EA2", "U+1EA3", "U+1EA4", "U+1EA5", "U+1EA6", "U+1EA7",
       "U+1EA8", "U+1EA9", "U+1EAA", "U+1EAB", "U+1EAC", "U+1EAD", "U+1EAE",
       "U+1EAF", "U+1EB0", "U+1EB1", "U+1EB2", "U+1EB3", "U+1EB4", "U+1EB5",
       "U+1EB6", "U+1EB7", "U+1EB8", "U+1EB9", "U+1EBA", "U+1EBB", "U+1EBC",
       "U+1EBD", "U+1EBE", "U+1EBF", "U+1EC0", "U+1EC1", "U+1EC2", "U+1EC3",
       "U+1EC4", "U+1EC5", "U+1EC6", "U+1EC7", "U+1EC8", "U+1EC9", "U+1ECA",
       "U+1ECB", "U+1ECC", "U+1ECD", "U+1ECE", "U+1ECF", "U+1ED0", "U+1ED1",
       "U+1ED2", "U+1ED3", "U+1ED4", "U+1ED5", "U+1ED6", "U+1ED7", "U+1ED8",
       "U+1ED9", "U+1EDA", "U+1EDB", "U+1EDC", "U+1EDD", "U+1EDE", "U+1EDF",
       "U+1EE0", "U+1EE1", "U+1EE2", "U+1EE3", "U+1EE4", "U+1EE5", "U+1EE6",
       "U+1EE7", "U+1EE8", "U+1EE9", "U+1EEA", "U+1EEB", "U+1EEC", "U+1EED",
       "U+1EEE", "U+1EEF", "U+1EF0", "U+1EF1", "U+1EF2", "U+1EF3", "U+1EF4",
       "U+1EF5", "U+1EF6", "U+1EF7", "U+1EF8", "U+1EF9", "U+1EFA", "U+1EFB",
       "U+1EFC", "U+1EFD", "U+1EFE", "U+1EFF", "U+1F00", "U+1F01", "U+1F02",
       "U+1F03", "U+1F04", "U+1F05", "U+1F06", "U+1F07", "U+1F08", "U+1F09",
       "U+1F0A", "U+1F0B", "U+1F0C", "U+1F0D", "U+1F0E", "U+1F0F", "U+1F10",
       "U+1F11", "U+1F12", "U+1F13", "U+1F14", "U+1F15", "U+1F18", "U+1F19",
       "U+1F1A", "U+1F1B", "U+1F1C", "U+1F1D", "U+1F20", "U+1F21", "U+1F22",
       "U+1F23", "U+1F24", "U+1F25", "U+1F26", "U+1F27", "U+1F28", "U+1F29",
       "U+1F2A", "U+1F2B", "U+1F2C", "U+1F2D", "U+1F2E", "U+1F2F", "U+1F30",
       "U+1F31", "U+1F32", "U+1F33", "U+1F34", "U+1F35", "U+1F36", "U+1F37",
       "U+1F38", "U+1F39", "U+1F3A", "U+1F3B", "U+1F3C", "U+1F3D", "U+1F3E",
       "U+1F3F", "U+1F40", "U+1F41", "U+1F42", "U+1F43", "U+1F44", "U+1F45",
       "U+1F48", "U+1F49", "U+1F4A", "U+1F4B", "U+1F4C", "U+1F4D", "U+1F50",
       "U+1F51", "U+1F52", "U+1F53", "U+1F54", "U+1F55", "U+1F56", "U+1F57",
       "U+1F59", "U+1F5B", "U+1F5D", "U+1F5F", "U+1F60", "U+1F61", "U+1F62",
       "U+1F63", "U+1F64", "U+1F65", "U+1F66", "U+1F67", "U+1F68", "U+1F69",
       "U+1F6A", "U+1F6B", "U+1F6C", "U+1F6D", "U+1F6E", "U+1F6F", "U+1F70",
       "U+1F71", "U+1F72", "U+1F73", "U+1F74", "U+1F75", "U+1F76", "U+1F77",
       "U+1F78", "U+1F79", "U+1F7A", "U+1F7B", "U+1F7C", "U+1F7D", "U+1F80",
       "U+1F81", "U+1F82", "U+1F83", "U+1F84", "U+1F85", "U+1F86", "U+1F87",
       "U+1F88", "U+1F89", "U+1F8A", "U+1F8B", "U+1F8C", "U+1F8D", "U+1F8E",
       "U+1F8F", "U+1F90", "U+1F91", "U+1F92", "U+1F93", "U+1F94", "U+1F95",
       "U+1F96", "U+1F97", "U+1F98", "U+1F99", "U+1F9A", "U+1F9B", "U+1F9C",
       "U+1F9D", "U+1F9E", "U+1F9F", "U+1FA0", "U+1FA1", "U+1FA2", "U+1FA3",
       "U+1FA4", "U+1FA5", "U+1FA6", "U+1FA7", "U+1FA8", "U+1FA9", "U+1FAA",
       "U+1FAB", "U+1FAC", "U+1FAD", "U+1FAE", "U+1FAF", "U+1FB0", "U+1FB1",
       "U+1FB2", "U+1FB3", "U+1FB4", "U+1FB6", "U+1FB7", "U+1FB8", "U+1FB9",
       "U+1FBA", "U+1FBB", "U+1FBC", "U+1FBE", "U+1FC2", "U+1FC3", "U+1FC4",
       "U+1FC6", "U+1FC7", "U+1FC8", "U+1FC9", "U+1FCA", "U+1FCB", "U+1FCC",
       "U+1FD0", "U+1FD1", "U+1FD2", "U+1FD3", "U+1FD6", "U+1FD7", "U+1FD8",
       "U+1FD9", "U+1FDA", "U+1FDB", "U+1FE0", "U+1FE1", "U+1FE2", "U+1FE3",
       "U+1FE4", "U+1FE5", "U+1FE6", "U+1FE7", "U+1FE8", "U+1FE9", "U+1FEA",
       "U+1FEB", "U+1FEC", "U+1FF2", "U+1FF3", "U+1FF4", "U+1FF6", "U+1FF7",
       "U+1FF8", "U+1FF9", "U+1FFA", "U+1FFB", "U+1FFC", "U+2102", "U+2107",
       "U+210A", "U+210B", "U+210C", "U+210D", "U+210E", "U+210F", "U+2110",
       "U+2111", "U+2112", "U+2113", "U+2115", "U+2119", "U+211A", "U+211B",
       "U+211C", "U+211D", "U+2124", "U+2126", "U+2128", "U+212A", "U+212B",
       "U+212C", "U+212D", "U+212F", "U+2130", "U+2131", "U+2132", "U+2133",
       "U+2134", "U+2139", "U+213C", "U+213D", "U+213E", "U+213F", "U+2145",
       "U+2146", "U+2147", "U+2148", "U+2149", "U+214E", "U+2160", "U+2161",
       "U+2162", "U+2163", "U+2164", "U+2165", "U+2166", "U+2167", "U+2168",
       "U+2169", "U+216A", "U+216B", "U+216C", "U+216D", "U+216E", "U+216F",
       "U+2170", "U+2171", "U+2172", "U+2173", "U+2174", "U+2175", "U+2176",
       "U+2177", "U+2178", "U+2179", "U+217A", "U+217B", "U+217C", "U+217D",
       "U+217E", "U+217F", "U+2183", "U+2184", "U+24B6", "U+24B7", "U+24B8",
       "U+24B9", "U+24BA", "U+24BB", "U+24BC", "U+24BD", "U+24BE", "U+24BF",
       "U+24C0", "U+24C1", "U+24C2", "U+24C3", "U+24C4", "U+24C5", "U+24C6",
       "U+24C7", "U+24C8", "U+24C9", "U+24CA", "U+24CB", "U+24CC", "U+24CD",
       "U+24CE", "U+24CF", "U+24D0", "U+24D1", "U+24D2", "U+24D3", "U+24D4",
       "U+24D5", "U+24D6", "U+24D7", "U+24D8", "U+24D9", "U+24DA", "U+24DB",
       "U+24DC", "U+24DD", "U+24DE", "U+24DF", "U+24E0", "U+24E1", "U+24E2",
       "U+24E3", "U+24E4", "U+24E5", "U+24E6", "U+24E7", "U+24E8", "U+24E9",
       "U+2C00", "U+2C01", "U+2C02", "U+2C03", "U+2C04", "U+2C05", "U+2C06",
       "U+2C07", "U+2C08", "U+2C09", "U+2C0A", "U+2C0B", "U+2C0C", "U+2C0D",
       "U+2C0E", "U+2C0F", "U+2C10", "U+2C11", "U+2C12", "U+2C13", "U+2C14",
       "U+2C15", "U+2C16", "U+2C17", "U+2C18", "U+2C19", "U+2C1A", "U+2C1B",
       "U+2C1C", "U+2C1D", "U+2C1E", "U+2C1F", "U+2C20", "U+2C21", "U+2C22",
       "U+2C23", "U+2C24", "U+2C25", "U+2C26", "U+2C27", "U+2C28", "U+2C29",
       "U+2C2A", "U+2C2B", "U+2C2C", "U+2C2D", "U+2C2E", "U+2C2F", "U+2C30",
       "U+2C31", "U+2C32", "U+2C33", "U+2C34", "U+2C35", "U+2C36", "U+2C37",
       "U+2C38", "U+2C39", "U+2C3A", "U+2C3B", "U+2C3C", "U+2C3D", "U+2C3E",
       "U+2C3F", "U+2C40", "U+2C41", "U+2C42", "U+2C43", "U+2C44", "U+2C45",
       "U+2C46", "U+2C47", "U+2C48", "U+2C49", "U+2C4A", "U+2C4B", "U+2C4C",
       "U+2C4D", "U+2C4E", "U+2C4F", "U+2C50", "U+2C51", "U+2C52", "U+2C53",
       "U+2C54", "U+2C55", "U+2C56", "U+2C57", "U+2C58", "U+2C59", "U+2C5A",
       "U+2C5B", "U+2C5C", "U+2C5D", "U+2C5E", "U+2C5F", "U+2C60", "U+2C61",
       "U+2C62", "U+2C63", "U+2C64", "U+2C65", "U+2C66", "U+2C67", "U+2C68",
       "U+2C69", "U+2C6A", "U+2C6B", "U+2C6C", "U+2C6D", "U+2C6E", "U+2C6F",
       "U+2C70", "U+2C71", "U+2C72", "U+2C73", "U+2C74", "U+2C75", "U+2C76",
       "U+2C77", "U+2C78", "U+2C79", "U+2C7A", "U+2C7B", "U+2C7E", "U+2C7F",
       "U+2C80", "U+2C81", "U+2C82", "U+2C83", "U+2C84", "U+2C85", "U+2C86",
       "U+2C87", "U+2C88", "U+2C89", "U+2C8A", "U+2C8B", "U+2C8C", "U+2C8D",
       "U+2C8E", "U+2C8F", "U+2C90", "U+2C91", "U+2C92", "U+2C93", "U+2C94",
       "U+2C95", "U+2C96", "U+2C97", "U+2C98", "U+2C99", "U+2C9A", "U+2C9B",
       "U+2C9C", "U+2C9D", "U+2C9E", "U+2C9F", "U+2CA0", "U+2CA1", "U+2CA2",
       "U+2CA3", "U+2CA4", "U+2CA5", "U+2CA6", "U+2CA7", "U+2CA8", "U+2CA9",
       "U+2CAA", "U+2CAB", "U+2CAC", "U+2CAD", "U+2CAE", "U+2CAF", "U+2CB0",
       "U+2CB1", "U+2CB2", "U+2CB3", "U+2CB4", "U+2CB5", "U+2CB6", "U+2CB7",
       "U+2CB8", "U+2CB9", "U+2CBA", "U+2CBB", "U+2CBC", "U+2CBD", "U+2CBE",
       "U+2CBF", "U+2CC0", "U+2CC1", "U+2CC2", "U+2CC3", "U+2CC4", "U+2CC5",
       "U+2CC6", "U+2CC7", "U+2CC8", "U+2CC9", "U+2CCA", "U+2CCB", "U+2CCC",
       "U+2CCD", "U+2CCE", "U+2CCF", "U+2CD0", "U+2CD1", "U+2CD2", "U+2CD3",
       "U+2CD4", "U+2CD5", "U+2CD6", "U+2CD7", "U+2CD8", "U+2CD9", "U+2CDA",
       "U+2CDB", "U+2CDC", "U+2CDD", "U+2CDE", "U+2CDF", "U+2CE0", "U+2CE1",
       "U+2CE2", "U+2CE3", "U+2CE4", "U+2CEB", "U+2CEC", "U+2CED", "U+2CEE",
       "U+2CF2", "U+2CF3", "U+2D00", "U+2D01", "U+2D02", "U+2D03", "U+2D04",
       "U+2D05", "U+2D06", "U+2D07", "U+2D08", "U+2D09", "U+2D0A", "U+2D0B",
       "U+2D0C", "U+2D0D", "U+2D0E", "U+2D0F", "U+2D10", "U+2D11", "U+2D12",
       "U+2D13", "U+2D14", "U+2D15", "U+2D16", "U+2D17", "U+2D18", "U+2D19",
       "U+2D1A", "U+2D1B", "U+2D1C", "U+2D1D", "U+2D1E", "U+2D1F", "U+2D20",
       "U+2D21", "U+2D22", "U+2D23", "U+2D24", "U+2D25", "U+2D27", "U+2D2D",
       "U+A640", "U+A641", "U+A642", "U+A643", "U+A644", "U+A645", "U+A646",
       "U+A647", "U+A648", "U+A649", "U+A64A", "U+A64B", "U+A64C", "U+A64D",
       "U+A64E", "U+A64F", "U+A650", "U+A651", "U+A652", "U+A653", "U+A654",
       "U+A655", "U+A656", "U+A657", "U+A658", "U+A659", "U+A65A", "U+A65B",
       "U+A65C", "U+A65D", "U+A65E", "U+A65F", "U+A660", "U+A661", "U+A662",
       "U+A663", "U+A664", "U+A665", "U+A666", "U+A667", "U+A668", "U+A669",
       "U+A66A", "U+A66B", "U+A66C", "U+A66D", "U+A680", "U+A681", "U+A682",
       "U+A683", "U+A684", "U+A685", "U+A686", "U+A687", "U+A688", "U+A689",
       "U+A68A", "U+A68B", "U+A68C", "U+A68D", "U+A68E", "U+A68F", "U+A690",
       "U+A691", "U+A692", "U+A693", "U+A694", "U+A695", "U+A696", "U+A697",
       "U+A698", "U+A699", "U+A69A", "U+A69B", "U+A722", "U+A723", "U+A724",
       "U+A725", "U+A726", "U+A727", "U+A728", "U+A729", "U+A72A", "U+A72B",
       "U+A72C", "U+A72D", "U+A72E", "U+A72F", "U+A730", "U+A731", "U+A732",
       "U+A733", "U+A734", "U+A735", "U+A736", "U+A737", "U+A738", "U+A739",
       "U+A73A", "U+A73B", "U+A73C", "U+A73D", "U+A73E", "U+A73F", "U+A740",
       "U+A741", "U+A742", "U+A743", "U+A744", "U+A745", "U+A746", "U+A747",
       "U+A748", "U+A749", "U+A74A", "U+A74B", "U+A74C", "U+A74D", "U+A74E",
       "U+A74F", "U+A750", "U+A751", "U+A752", "U+A753", "U+A754", "U+A755",
       "U+A756", "U+A757", "U+A758", "U+A759", "U+A75A", "U+A75B", "U+A75C",
       "U+A75D", "U+A75E", "U+A75F", "U+A760", "U+A761", "U+A762", "U+A763",
       "U+A764", "U+A765", "U+A766", "U+A767", "U+A768", "U+A769", "U+A76A",
       "U+A76B", "U+A76C", "U+A76D", "U+A76E", "U+A76F", "U+A771", "U+A772",
       "U+A773", "U+A774", "U+A775", "U+A776", "U+A777", "U+A778", "U+A779",
       "U+A77A", "U+A77B", "U+A77C", "U+A77D", "U+A77E", "U+A77F", "U+A780",
       "U+A781", "U+A782", "U+A783", "U+A784", "U+A785", "U+A786", "U+A787",
       "U+A78B", "U+A78C", "U+A78D", "U+A78E", "U+A790", "U+A791", "U+A792",
       "U+A793", "U+A794", "U+A795", "U+A796", "U+A797", "U+A798", "U+A799",
       "U+A79A", "U+A79B", "U+A79C", "U+A79D", "U+A79E", "U+A79F", "U+A7A0",
       "U+A7A1", "U+A7A2", "U+A7A3", "U+A7A4", "U+A7A5", "U+A7A6", "U+A7A7",
       "U+A7A8", "U+A7A9", "U+A7AA", "U+A7AB", "U+A7AC", "U+A7AD", "U+A7AE",
       "U+A7AF", "U+A7B0", "U+A7B1", "U+A7B2", "U+A7B3", "U+A7B4", "U+A7B5",
       "U+A7B6", "U+A7B7", "U+A7B8", "U+A7B9", "U+A7BA", "U+A7BB", "U+A7BC",
       "U+A7BD", "U+A7BE", "U+A7BF", "U+A7C0", "U+A7C1", "U+A7C2", "U+A7C3",
       "U+A7C4", "U+A7C5", "U+A7C6", "U+A7C7", "U+A7C8", "U+A7C9", "U+A7CA",
       "U+A7CB", "U+A7CC", "U+A7CD", "U+A7CE", "U+A7CF", "U+A7D0", "U+A7D1",
       "U+A7D2", "U+A7D3", "U+A7D4", "U+A7D5", "U+A7D6", "U+A7D7", "U+A7D8",
       "U+A7D9", "U+A7DA", "U+A7DB", "U+A7DC", "U+A7F5", "U+A7F6", "U+A7FA",
       "U+AB30", "U+AB31", "U+AB32", "U+AB33", "U+AB34", "U+AB35", "U+AB36",
       "U+AB37", "U+AB38", "U+AB39", "U+AB3A", "U+AB3B", "U+AB3C", "U+AB3D",
       "U+AB3E", "U+AB3F", "U+AB40", "U+AB41", "U+AB42", "U+AB43", "U+AB44",
       "U+AB45", "U+AB46", "U+AB47", "U+AB48", "U+AB49", "U+AB4A", "U+AB4B",
       "U+AB4C", "U+AB4D", "U+AB4E", "U+AB4F", "U+AB50", "U+AB51", "U+AB52",
       "U+AB53", "U+AB54", "U+AB55", "U+AB56", "U+AB57", "U+AB58", "U+AB59",
       "U+AB5A", "U+AB60", "U+AB61", "U+AB62", "U+AB63", "U+AB64", "U+AB65",
       "U+AB66", "U+AB67", "U+AB68", "U+AB70", "U+AB71", "U+AB72", "U+AB73",
       "U+AB74", "U+AB75", "U+AB76", "U+AB77", "U+AB78", "U+AB79", "U+AB7A",
       "U+AB7B", "U+AB7C", "U+AB7D", "U+AB7E", "U+AB7F", "U+AB80", "U+AB81",
       "U+AB82", "U+AB83", "U+AB84", "U+AB85", "U+AB86", "U+AB87", "U+AB88",
       "U+AB89", "U+AB8A", "U+AB8B", "U+AB8C", "U+AB8D", "U+AB8E", "U+AB8F",
       "U+AB90", "U+AB91", "U+AB92", "U+AB93", "U+AB94", "U+AB95", "U+AB96",
       "U+AB97", "U+AB98", "U+AB99", "U+AB9A", "U+AB9B", "U+AB9C", "U+AB9D",
       "U+AB9E", "U+AB9F", "U+ABA0", "U+ABA1", "U+ABA2", "U+ABA3", "U+ABA4",
       "U+ABA5", "U+ABA6", "U+ABA7", "U+ABA8", "U+ABA9", "U+ABAA", "U+ABAB",
       "U+ABAC", "U+ABAD", "U+ABAE", "U+ABAF", "U+ABB0", "U+ABB1", "U+ABB2",
       "U+ABB3", "U+ABB4", "U+ABB5", "U+ABB6", "U+ABB7", "U+ABB8", "U+ABB9",
       "U+ABBA", "U+ABBB", "U+ABBC", "U+ABBD", "U+ABBE", "U+ABBF", "U+FB00",
       "U+FB01", "U+FB02", "U+FB03", "U+FB04", "U+FB05", "U+FB06", "U+FB13",
       "U+FB14", "U+FB15", "U+FB16", "U+FB17", "U+FF21", "U+FF22", "U+FF23",
       "U+FF24", "U+FF25", "U+FF26", "U+FF27", "U+FF28", "U+FF29", "U+FF2A",
       "U+FF2B", "U+FF2C", "U+FF2D", "U+FF2E", "U+FF2F", "U+FF30", "U+FF31",
       "U+FF32", "U+FF33", "U+FF34", "U+FF35", "U+FF36", "U+FF37", "U+FF38",
       "U+FF39", "U+FF3A", "U+FF41", "U+FF42", "U+FF43", "U+FF44", "U+FF45",
       "U+FF46", "U+FF47", "U+FF48", "U+FF49", "U+FF4A", "U+FF4B", "U+FF4C",
       "U+FF4D", "U+FF4E", "U+FF4F", "U+FF50", "U+FF51", "U+FF52", "U+FF53",
       "U+FF54", "U+FF55", "U+FF56", "U+FF57", "U+FF58", "U+FF59", "U+FF5A" }

\* the characters it skips there: Case_Ignorable, with the marks and the
\* modifier letter added since Unicode 14 (U+0897, U+0ECE, U+1ACF-U+1ADD,
\* U+1AE0-U+1AEB, U+A7F1); the grave accent is written "U+0060"
CaseIgnorable ==
    { "'", ".", ":", "^", "U+0060", "U+00A8", "U+00AD", "U+00AF", "U+00B4",
       "U+00B7", "U+00B8", "U+02B0", "U+02B1", "U+02B2", "U+02B3", "U+02B4",
       "U+02B5", "U+02B6", "U+02B7", "U+02B8", "U+02B9", "U+02BA", "U+02BB",
       "U+02BC", "U+02BD", "U+02BE", "U+02BF", "U+02C0", "U+02C1", "U+02C2",
       "U+02C3", "U+02C4", "U+02C5", "U+02C6", "U+02C7", "U+02C8", "U+02C9",
       "U+02CA", "U+02CB", "U+02CC", "U+02CD", "U+02CE", "U+02CF", "U+02D0",
       "U+02D1", "U+02D2", "U+02D3", "U+02D4", "U+02D5", "U+02D6", "U+02D7",
       "U+02D8", "U+02D9", "U+02DA", "U+02DB", "U+02DC", "U+02DD", "U+02DE",
       "U+02DF", "U+02E0", "U+02E1", "U+02E2", "U+02E3", "U+02E4", "U+02E5",
       "U+02E6", "U+02E7", "U+02E8", "U+02E9", "U+02EA", "U+02EB", "U+02EC",
       "U+02ED", "U+02EE", "U+02EF", "U+02F0", "U+02F1", "U+02F2", "U+02F3",
       "U+02F4", "U+02F5", "U+02F6", "U+02F7", "U+02F8", "U+02F9", "U+02FA",
       "U+02FB", "U+02FC", "U+02FD", "U+02FE", "U+02FF", "U+0300", "U+0301",
       "U+0302", "U+0303", "U+0304", "U+0305", "U+0306", "U+0307", "U+0308",
       "U+0309", "U+030A", "U+030B", "U+030C", "U+030D", "U+030E", "U+030F",
       "U+0310", "U+0311", "U+0312", "U+0313", "U+0314", "U+0315", "U+0316",
       "U+0317", "U+0318", "U+0319", "U+031A", "U+031B", "U+031C", "U+031D",
       "U+031E", "U+031F", "U+0320", "U+0321", "U+0322", "U+0323", "U+0324",
       "U+0325", "U+0326", "U+0327", "U+0328", "U+0329", "U+032A", "U+032B",
       "U+032C", "U+032D", "U+032E", "U+032F", "U+0330", "U+0331", "U+0332",
       "U+0333", "U+0334", "U+0335", "U+0336", "U+0337", "U+0338", "U+0339",
       "U+033A", "U+033B", "U+033C", "U+033D", "U+033E", "U+033F", "U+0340",
       "U+0341", "U+0342", "U+0343", "U+0344", "U+0345", "U+0346", "U+0347",
       "U+0348", "U+0349", "U+034A", "U+034B", "U+034C", "U+034D", "U+034E",
       "U+034F", "U+0350", "U+0351", "U+0352", "U+0353", "U+0354", "U+0355",
       "U+0356", "U+0357", "U+0358", "U+0359", "U+035A", "U+035B", "U+035C",
       "U+035D", "U+035E", "U+035F", "U+0360", "U+0361", "U+0362", "U+0363",
       "U+0364", "U+0365", "U+0366", "U+0367", "U+0368", "U+0369", "U+036A",
       "U+036B", "U+036C", "U+036D", "U+036E", "U+036F", "U+0374", "U+0375",
       "U+037A", "U+0384", "U+0385", "U+0387", "U+0483", "U+0484", "U+0485",
       "U+0486", "U+0487", "U+0488", "U+0489", "U+0559", "U+055F", "U+0591",
       "U+0592", "U+0593", "U+0594", "U+0595", "U+0596", "U+0597", "U+0598",
       "U+0599", "U+059A", "U+059B", "U+059C", "U+059D", "U+059E", "U+059F",
       "U+05A0", "U+05A1", "U+05A2", "U+05A3", "U+05A4", "U+05A5", "U+05A6",
       "U+05A7", "U+05A8", "U+05A9", "U+05AA", "U+05AB", "U+05AC", "U+05AD",
       "U+05AE", "U+05AF", "U+05B0", "U+05B1", "U+05B2", "U+05B3", "U+05B4",
       "U+05B5", "U+05B6", "U+05B7", "U+05B8", "U+05B9", "U+05BA", "U+05BB",
       "U+05BC", "U+05BD", "U+05BF", "U+05C1", "U+05C2", "U+05C4", "U+05C5",
       "U+05C7", "U+05F4", "U+0600", "U+0601", "U+0602", "U+0603", "U+0604",
       "U+0605", "U+0610", "U+0611", "U+0612", "U+0613", "U+0614", "U+0615",
       "U+0616", "U+0617", "U+0618", "U+0619", "U+061A", "U+061C", "U+0640",
       "U+064B", "U+064C", "U+064D", "U+064E", "U+064F", "U+0650", "U+0651",
       "U+0652", "U+0653", "U+0654", "U+0655", "U+0656", "U+0657", "U+0658",
       "U+0659", "U+065A", "U+065B", "U+065C", "U+065D", "U+065E", "U+065F",
       "U+0670", "U+06D6", "U+06D7", "U+06D8", "U+06D9", "U+06DA", "U+06DB",
       "U+06DC", "U+06DD", "U+06DF", "U+06E0", "U+06E1", "U+06E2", "U+06E3",
       "U+06E4", "U+06E5", "U+06E6", "U+06E7", "U+06E8", "U+06EA", "U+06EB",
       "U+06EC", "U+06ED", "U+070F", "U+0711", "U+0730", "U+0731", "U+0732",
       "U+0733", "U+0734", "U+0735", "U+0736", "U+0737", "U+0738", "U+0739",
       "U+073A", "U+073B", "U+073C", "U+073D", "U+073E", "U+073F", "U+0740",
       "U+0741", "U+0742", "U+0743", "U+0744", "U+0745", "U+0746", "U+0747",
       "U+0748", "U+0749", "U+074A", "U+07A6", "U+07A7", "U+07A8", "U+07A9",
       "U+07AA", "U+07AB", "U+07AC", "U+07AD", "U+07AE", "U+07AF", "U+07B0",
       "U+07EB", "U+07EC", "U+07ED", "U+07EE", "U+07EF", "U+07F0", "U+07F1",
       "U+07F2", "U+07F3", "U+07F4", "U+07F5", "U+07FA", "U+07FD", "U+0816",
       "U+0817", "U+0818", "U+0819", "U+081A", "U+081B", "U+081C", "U+081D",
       "U+081E", "U+081F", "U+0820", "U+0821", "U+0822", "U+0823", "U+0824",
       "U+0825", "U+0826", "U+0827", "U+0828", "U+0829", "U+082A", "U+082B",
       "U+082C", "U+082D", "U+0859", "U+085A", "U+085B", "U+0888", "U+0890",
       "U+0891", "U+0897", "U+0898", "U+0899", "U+089A", "U+089B", "U+089C",
       "U+089D", "U+089E", "U+089F", "U+08C9", "U+08CA", "U+08CB", "U+08CC",
       "U+08CD", "U+08CE", "U+08CF", "U+08D0", "U+08D1", "U+08D2", "U+08D3",
       "U+08D4", "U+08D5", "U+08D6", "U+08D7", "U+08D8", "U+08D9", "U+08DA",
       "U+08DB", "U+08DC", "U+08DD", "U+08DE", "U+08DF", "U+08E0", "U+08E1",
       "U+08E2", "U+08E3", "U+08E4", "U+08E5", "U+08E6", "U+08E7", "U+08E8",
       "U+08E9", "U+08EA", "U+08EB", "U+08EC", "U+08ED", "U+08EE", "U+08EF",
       "U+08F0", "U+08F1", "U+08F2", "U+08F3", "U+08F4", "U+08F5", "U+08F6",
       "U+08F7", "U+08F8", "U+08F9", "U+08FA", "U+08FB", "U+08FC", "U+08FD",
       "U+08FE", "U+08FF", "U+0900", "U+0901", "U+0902", "U+093A", "U+093C",
       "U+0941", "U+0942", "U+0943", "U+0944", "U+0945", "U+0946", "U+0947",
       "U+0948", "U+094D", "U+0951", "U+0952", "U+0953", "U+0954", "U+0955",
       "U+0956", "U+0957", "U+0962", "U+0963", "U+0971", "U+0981", "U+09BC",
       "U+09C1", "U+09C2", "U+09C3", "U+09C4", "U+09CD", "U+09E2", "U+09E3",
       "U+09FE", "U+0A01", "U+0A02", "U+0A3C", "U+0A41", "U+0A42", "U+0A47",
       "U+0A48", "U+0A4B", "U+0A4C", "U+0A4D", "U+0A51", "U+0A70", "U+0A71",
       "U+0A75", "U+0A81", "U+0A82", "U+0ABC", "U+0AC1", "U+0AC2", "U+0AC3",
       "U+0AC4", "U+0AC5", "U+0AC7", "U+0AC8", "U+0ACD", "U+0AE2", "U+0AE3",
       "U+0AFA", "U+0AFB", "U+0AFC", "U+0AFD", "U+0AFE", "U+0AFF", "U+0B01",
       "U+0B3C", "U+0B3F", "U+0B41", "U+0B42", "U+0B43", "U+0B44", "U+0B4D",
       "U+0B55", "U+0B56", "U+0B62", "U+0B63", "U+0B82", "U+0BC0", "U+0BCD",
       "U+0C00", "U+0C04", "U+0C3C", "U+0C3E", "U+0C3F", "U+0C40", "U+0C46",
       "U+0C47", "U+0C48", "U+0C4A", "U+0C4B", "U+0C4C", "U+0C4D", "U+0C55",
       "U+0C56", "U+0C62", "U+0C63", "U+0C81", "U+0CBC", "U+0CBF", "U+0CC6",
       "U+0CCC", "U+0CCD", "U+0CE2", "U+0CE3", "U+0D00", "U+0D01", "U+0D3B",
       "U+0D3C", "U+0D41", "U+0D42", "U+0D43", "U+0D44", "U+0D4D", "U+0D62",
       "U+0D63", "U+0D81", "U+0DCA", "U+0DD2", "U+0DD3", "U+0DD4", "U+0DD6",
       "U+0E31", "U+0E34", "U+0E35", "U+0E36", "U+0E37", "U+0E38", "U+0E39",
       "U+0E3A", "U+0E46", "U+0E47", "U+0E48", "U+0E49", "U+0E4A", "U+0E4B",
       "U+0E4C", "U+0E4D", "U+0E4E", "U+0EB1", "U+0EB4", "U+0EB5", "U+0EB6",
       "U+0EB7", "U+0EB8", "U+0EB9", "U+0EBA", "U+0EBB", "U+0EBC", "U+0EC6",
       "U+0EC8", "U+0EC9", "U+0ECA", "U+0ECB", "U+0ECC", "U+0ECD", "U+0ECE",
       "U+0F18", "U+0F19", "U+0F35", "U+0F37", "U+0F39", "U+0F71", "U+0F72",
       "U+0F73", "U+0F74", "U+0F75", "U+0F76", "U+0F77", "U+0F78", "U+0F79",
       "U+0F7A", "U+0F7B", "U+0F7C", "U+0F7D", "U+0F7E", "U+0F80", "U+0F81",
       "U+0F82", "U+0F83", "U+0F84", "U+0F86", "U+0F87", "U+0F8D", "U+0F8E",
       "U+0F8F", "U+0F90", "U+0F91", "U+0F92", "U+0F93", "U+0F94", "U+0F95",
       "U+0F96", "U+0F97", "U+0F99", "U+0F9A", "U+0F9B", "U+0F9C", "U+0F9D",
       "U+0F9E", "U+0F9F", "U+0FA0", "U+0FA1", "U+0FA2", "U+0FA3", "U+0FA4",
       "U+0FA5", "U+0FA6", "U+0FA7", "U+0FA8", "U+0FA9", "U+0FAA", "U+0FAB",
       "U+0FAC", "U+0FAD", "U+0FAE", "U+0FAF", "U+0FB0", "U+0FB1", "U+0FB2",
       "U+0FB3", "U+0FB4", "U+0FB5", "U+0FB6", "U+0FB7", "U+0FB8", "U+0FB9",
       "U+0FBA", "U+0FBB", "U+0FBC", "U+0FC6", "U+102D", "U+102E", "U+102F",
       "U+1030", "U+1032", "U+1033", "U+1034", "U+1035", "U+1036", "U+1037",
       "U+1039", "U+103A", "U+103D", "U+103E", "U+1058", "U+1059", "U+105E",
       "U+105F", "U+1060", "U+1071", "U+1072", "U+1073", "U+1074", "U+1082",
       "U+1085", "U+1086", "U+108D", "U+109D", "U+10FC", "U+135D", "U+135E",
       "U+135F", "U+1712", "U+1713", "U+1714", "U+1732", "U+1733", "U+1752",
       "U+1753", "U+1772", "U+1773", "U+17B4", "U+17B5", "U+17B7", "U+17B8",
       "U+17B9", "U+17BA", "U+17BB", "U+17BC", "U+17BD", "U+17C6", "U+17C9",
       "U+17CA", "U+17CB", "U+17CC", "U+17CD", "U+17CE", "U+17CF", "U+17D0",
       "U+17D1", "U+17D2", "U+17D3", "U+17D7", "U+17DD", "U+180B", "U+180C",
       "U+180D", "U+180E", "U+180F", "U+1843", "U+1885", "U+1886", "U+18A9",
       "U+1920", "U+1921", "U+1922", "U+1927", "U+1928", "U+1932", "U+1939",
       "U+193A", "U+193B", "U+1A17", "U+1A18", "U+1A1B", "U+1A56", "U+1A58",
       "U+1A59", "U+1A5A", "U+1A5B", "U+1A5C", "U+1A5D", "U+1A5E", "U+1A60",
       "U+1A62", "U+1A65", "U+1A66", "U+1A67", "U+1A68", "U+1A69", "U+1A6A",
       "U+1A6B", "U+1A6C", "U+1A73", "U+1A74", "U+1A75", "U+1A76", "U+1A77",
       "U+1A78", "U+1A79", "U+1A7A", "U+1A7B", "U+1A7C", "U+1A7F", "U+1AA7",
       "U+1AB0", "U+1AB1", "U+1AB2", "U+1AB3", "U+1AB4", "U+1AB5", "U+1AB6",
       "U+1AB7", "U+1AB8", "U+1AB9", "U+1ABA", "U+1ABB", "U+1ABC", "U+1ABD",
       "U+1ABE", "U+1ABF", "U+1AC0", "U+1AC1", "U+1AC2", "U+1AC3", "U+1AC4",
       "U+1AC5", "U+1AC6", "U+1AC7", "U+1AC8", "U+1AC9", "U+1ACA", "U+1ACB",
       "U+1ACC", "U+1ACD", "U+1ACE", "U+1ACF", "U+1AD0", "U+1AD1", "U+1AD2",
       "U+1AD3", "U+1AD4", "U+1AD5", "U+1AD6", "U+1AD7", "U+1AD8", "U+1AD9",
       "U+1ADA", "U+1ADB", "U+1ADC", "U+1ADD", "U+1AE0", "U+1AE1", "U+1AE2",
       "U+1AE3", "U+1AE4", "U+1AE5", "U+1AE6", "U+1AE7", "U+1AE8", "U+1AE9",
       "U+1AEA", "U+1AEB", "U+1B00", "U+1B01", "U+1B02", "U+1B03", "U+1B34",
       "U+1B36", "U+1B37", "U+1B38", "U+1B39", "U+1B3A", "U+1B3C", "U+1B42",
       "U+1B6B", "U+1B6C", "U+1B6D", "U+1B6E", "U+1B6F", "U+1B70", "U+1B71",
       "U+1B72", "U+1B73", "U+1B80", "U+1B81", "U+1BA2", "U+1BA3", "U+1BA4",
       "U+1BA5", "U+1BA8", "U+1BA9", "U+1BAB", "U+1BAC", "U+1BAD", "U+1BE6",
       "U+1BE8", "U+1BE9", "U+1BED", "U+1BEF", "U+1BF0", "U+1BF1", "U+1C2C",
       "U+1C2D", "U+1C2E", "U+1C2F", "U+1C30", "U+1C31", "U+1C32", "U+1C33",
       "U+1C36", "U+1C37", "U+1C78", "U+1C79", "U+1C7A", "U+1C7B", "U+1C7C",
       "U+1C7D", "U+1CD0", "U+1CD1", "U+1CD2", "U+1CD4", "U+1CD5", "U+1CD6",
       "U+1CD7", "U+1CD8", "U+1CD9", "U+1CDA", "U+1CDB", "U+1CDC", "U+1CDD",
       "U+1CDE", "U+1CDF", "U+1CE0", "U+1CE2", "U+1CE3", "U+1CE4", "U+1CE5",
       "U+1CE6", "U+1CE7", "U+1CE8", "U+1CED", "U+1CF4", "U+1CF8", "U+1CF9",
       "U+1D2C", "U+1D2D", "U+1D2E", "U+1D2F", "U+1D30", "U+1D31", "U+1D32",
       "U+1D33", "U+1D34", "U+1D35", "U+1D36", "U+1D37", "U+1D38", "U+1D39",
       "U+1D3A", "U+1D3B", "U+1D3C", "U+1D3D", "U+1D3E", "U+1D3F", "U+1D40",
       "U+1D41", "U+1D42", "U+1D43", "U+1D44", "U+1D45", "U+1D46", "U+1D47",
       "U+1D48", "U+1D49", "U+1D4A", "U+1D4B", "U+1D4C", "U+1D4D", "U+1D4E",
       "U+1D4F", "U+1D50", "U+1D51", "U+1D52", "U+1D53", "U+1D54", "U+1D55",
       "U+1D56", "U+1D57", "U+1D58", "U+1D59", "U+1D5A", "U+1D5B", "U+1D5C",
       "U+1D5D", "U+1D5E", "U+1D5F", "U+1D60", "U+1D61", "U+1D62", "U+1D63",
       "U+1D64", "U+1D65", "U+1D66", "U+1D67", "U+1D68", "U+1D69", "U+1D6A",
       "U+1D78", "U+1D9B", "U+1D9C", "U+1D9D", "U+1D9E", "U+1D9F", "U+1DA0",
       "U+1DA1", "U+1DA2", "U+1DA3", "U+1DA4", "U+1DA5", "U+1DA6", "U+1DA7",
       "U+1DA8", "U+1DA9", "U+1DAA", "U+1DAB", "U+1DAC", "U+1DAD", "U+1DAE",
       "U+1DAF", "U+1DB0", "U+1DB1", "U+1DB2", "U+1DB3", "U+1DB4", "U+1DB5",
       "U+1DB6", "U+1DB7", "U+1DB8", "U+1DB9", "U+1DBA", "U+1DBB", "U+1DBC",
       "U+1DBD", "U+1DBE", "U+1DBF", "U+1DC0", "U+1DC1", "U+1DC2", "U+1DC3",
       "U+1DC4", "U+1DC5", "U+1DC6", "U+1DC7", "U+1DC8", "U+1DC9", "U+1DCA",
       "U+1DCB", "U+1DCC", "U+1DCD", "U+1DCE", "U+1DCF", "U+1DD0", "U+1DD1",
       "U+1DD2", "U+1DD3", "U+1DD4", "U+1DD5", "U+1DD6", "U+1DD7", "U+1DD8",
       "U+1DD9", "U+1DDA", "U+1DDB", "U+1DDC", "U+1DDD", "U+1DDE", "U+1DDF",
       "U+1DE0", "U+1DE1", "U+1DE2", "U+1DE3", "U+1DE4", "U+1DE5", "U+1DE6",
       "U+1DE7", "U+1DE8", "U+1DE9", "U+1DEA", "U+1DEB", "U+1DEC", "U+1DED",
       "U+1DEE", "U+1DEF", "U+1DF0", "U+1DF1", "U+1DF2", "U+1DF3", "U+1DF4",
       "U+1DF5", "U+1DF6", "U+1DF7", "U+1DF8", "U+1DF9", "U+1DFA", "U+1DFB",
       "U+1DFC", "U+1DFD", "U+1DFE", "U+1DFF", "U+1FBD", "U+1FBF", "U+1FC0",
       "U+1FC1", "U+1FCD", "U+1FCE", "U+1FCF", "U+1FDD", "U+1FDE", "U+1FDF",
       "U+1FED", "U+1FEE", "U+1FEF", "U+1FFD", "U+1FFE", "U+200B", "U+200C",
       "U+200D", "U+200E", "U+200F", "U+2018", "U+2019", "U+2024", "U+2027",
       "U+202A", "U+202B", "U+202C", "U+202D", "U+202E", "U+2060", "U+2061",
       "U+2062", "U+2063", "U+2064", "U+2066", "U+2067", "U+2068", "U+2069",
       "U+206A", "U+206B", "U+206C", "U+206D", "U+206E", "U+206F", "U+2071",
       "U+207F", "U+2090", "U+2091", "U+2092", "U+2093", "U+2094", "U+2095",
       "U+2096", "U+2097", "U+2098", "U+2099", "U+209A", "U+209B", "U+209C",
       "U+20D0", "U+20D1", "U+20D2", "U+20D3", "U+20D4", "U+20D5", "U+20D6",
       "U+20D7", "U+20D8", "U+20D9", "U+20DA", "U+20DB", "U+20DC", "U+20DD",
       "U+20DE", "U+20DF", "U+20E0", "U+20E1", "U+20E2", "U+20E3", "U+20E4",
       "U+20E5", "U+20E6", "U+20E7", "U+20E8", "U+20E9", "U+20EA", "U+20EB",
       "U+20EC", "U+20ED", "U+20EE", "U+20EF", "U+20F0", "U+2C7C", "U+2C7D",
       "U+2CEF", "U+2CF0", "U+2CF1", "U+2D6F", "U+2D7F", "U+2DE0", "U+2DE1",
       "U+2DE2", "U+2DE3", "U+2DE4", "U+2DE5", "U+2DE6", "U+2DE7", "U+2DE8",
       "U+2DE9", "U+2DEA", "U+2DEB", "U+2DEC", "U+2DED", "U+2DEE", "U+2DEF",
       "U+2DF0", "U+2DF1", "U+2DF2", "U+2DF3", "U+2DF4", "U+2DF5", "U+2DF6",
       "U+2DF7", "U+2DF8", "U+2DF9", "U+2DFA", "U+2DFB", "U+2DFC", "U+2DFD",
       "U+2DFE", "U+2DFF", "U+2E2F", "U+3005", "U+302A", "U+302B", "U+302C",
       "U+302D", "U+3031", "U+3032", "U+3033", "U+3034", "U+3035", "U+303B",
       "U+3099", "U+309A", "U+309B", "U+309C", "U+309D", "U+309E", "U+30FC",
       "U+30FD", "U+30FE", "U+A015", "U+A4F8", "U+A4F9", "U+A4FA", "U+A4FB",
       "U+A4FC", "U+A4FD", "U+A60C", "U+A66F", "U+A670", "U+A671", "U+A672",
       "U+A674", "U+A675", "U+A676", "U+A677", "U+A678", "U+A679", "U+A67A",
       "U+A67B", "U+A67C", "U+A67D", "U+A67F", "U+A69C", "U+A69D", "U+A69E",
       "U+A69F", "U+A6F0", "U+A6F1", "U+A700", "U+A701", "U+A702", "U+A703",
       "U+A704", "U+A705", "U+A706", "U+A707", "U+A708", "U+A709", "U+A70A",
       "U+A70B", "U+A70C", "U+A70D", "U+A70E", "U+A70F", "U+A710", "U+A711",
       "U+A712", "U+A713", "U+A714", "U+A715", "U+A716", "U+A717", "U+A718",
       "U+A719", "U+A71A", "U+A71B", "U+A71C", "U+A71D", "U+A71E", "U+A71F",
       "U+A720", "U+A721", "U+A770", "U+A788", "U+A789", "U+A78A", "U+A7F1",
       "U+A7F2", "U+A7F3", "U+A7F4", "U+A7F8", "U+A7F9", "U+A802", "U+A806",
       "U+A80B", "U+A825", "U+A826", "U+A82C", "U+A8C4", "U+A8C5", "U+A8E0",
       "U+A8E1", "U+A8E2", "U+A8E3", "U+A8E4", "U+A8E5", "U+A8E6", "U+A8E7",
       "U+A8E8", "U+A8E9", "U+A8EA", "U+A8EB", "U+A8EC", "U+A8ED", "U+A8EE",
       "U+A8EF", "U+A8F0", "U+A8F1", "U+A8FF", "U+A926", "U+A927", "U+A928",
       "U+A929", "U+A92A", "U+A92B", "U+A92C", "U+A92D", "U+A947", "U+A948",
       "U+A949", "U+A94A", "U+A94B", "U+A94C", "U+A94D", "U+A94E", "U+A94F",
       "U+A950", "U+A951", "U+A980", "U+A981", "U+A982", "U+A9B3", "U+A9B6",
       "U+A9B7", "U+A9B8", "U+A9B9", "U+A9BC", "U+A9BD", "U+A9CF", "U+A9E5",
       "U+A9E6", "U+AA29", "U+AA2A", "U+AA2B", "U+AA2C", "U+AA2D", "U+AA2E",
       "U+AA31", "U+AA32", "U+AA35", "U+AA36", "U+AA43", "U+AA4C", "U+AA70",
       "U+AA7C", "U+AAB0", "U+AAB2", "U+AAB3", "U+AAB4", "U+AAB7", "U+AAB8",
       "U+AABE", "U+AABF", "U+AAC1", "U+AADD", "U+AAEC", "U+AAED", "U+AAF3",
       "U+AAF4", "U+AAF6", "U+AB5B", "U+AB5C", "U+AB5D", "U+AB5E", "U+AB5F",
       "U+AB69", "U+AB6A", "U+AB6B", "U+ABE5", "U+ABE8", "U+ABED", "U+FB1E",
       "U+FBB2", "U+FBB3", "U+FBB4", "U+FBB5", "U+FBB6", "U+FBB7", "U+FBB8",
       "U+FBB9", "U+FBBA", "U+FBBB", "U+FBBC", "U+FBBD", "U+FBBE", "U+FBBF",
       "U+FBC0", "U+FBC1", "U+FBC2", "U+FE00", "U+FE01", "U+FE02", "U+FE03",
       "U+FE04", "U+FE05", "U+FE06", "U+FE07", "U+FE08", "U+FE09", "U+FE0A",
       "U+FE0B", "U+FE0C", "U+FE0D", "U+FE0E", "U+FE0F", "U+FE13", "U+FE20",
       "U+FE21", "U+FE22", "U+FE23", "U+FE24", "U+FE25", "U+FE26", "U+FE27",
       "U+FE28", "U+FE29", "U+FE2A", "U+FE2B", "U+FE2C", "U+FE2D", "U+FE2E",
       "U+FE2F", "U+FE52", "U+FE55", "U+FEFF", "U+FF07", "U+FF0E", "U+FF1A",
       "U+FF3E", "U+FF40", "U+FF70", "U+FF9E", "U+FF9F", "U+FFE3", "U+FFF9",
       "U+FFFA", "U+FFFB" }

UpperSet == {UpperLetters[i] : i \in 1..Len(UpperLetters)}

\* c.toLowerCase() for a character c on its own: a string of one character,
\* or of two for U+0130
LowerChar(c) ==
    IF c = "U+0130" THEN <<"i", "U+0307">>
    ELSE IF c \in UpperSet
         THEN <<LowerLetters[CHOOSE i \in 1..Len(UpperLetters) : UpperLetters[i] = c]>>
         ELSE <<c>>

\* the capital sigma s[i] is the last letter of a word: a cased letter comes
\* before it and none after it, case-ignorable characters skipped
FinalSigma(s, i) ==
    /\ \E j \in 1..(i - 1) :
          /\ s[j] \in CasedLetters
          /\ \A k \in (j + 1)..(i - 1) : s[k] \in CaseIgnorable
    /\ ~\E j \in (i + 1)..Len(s) :
          /\ s[j] \in CasedLetters
          /\ \A k \in (i + 1)..(j - 1) : s[k] \in CaseIgnorable

\* s.toLowerCase(): character by character, a capital sigma that ends a
\* word becoming the final sigma
ToLowerCase(s) ==
    LET Lower(i) == IF s[i] = "U+03A3" /\ FinalSigma(s, i) THEN <<"U+03C2">>
                    ELSE LowerChar(s[i])
        RECURSIVE From(_)
        From(i) == IF i > Len(s) THEN <<>> ELSE Lower(i) \o From(i + 1)
    IN From(1)

\* names.join('\n')
RECURSIVE JoinLines(_)
JoinLines(names) ==
    IF names = <<>> THEN <<>>
    ELSE IF Len(names) = 1 THEN names[1]
         ELSE names[1] \o <<"\n">> \o JoinLines(Tail(names))

\* the texts handed to the import operations: blank lines only, one name,
\* two names with padding, a blank line and a CRLF, three names
Texts ==
    { <<" ", "\n", "U+3000">>,
      <<"A">>,
      <<"U+00A0", "A", "\r", "\n", "\n", "B", " ">>,
      <<"B", "\n", "A", "\n", "A">> }

(***************************************************************************)
(* Number arithmetic. JavaScript numbers are IEEE-754 doubles: a           *)
(* non-negative number is the natural number of units of 2^-Scale it       *)
(* holds, written in digits of base Base, lowest digit first, without a    *)
(* leading zero; every operation computes the exact result and rounds it   *)
(* to Precision significant bits, ties to the even neighbour.              *)
(***************************************************************************)
Precision == 53
Scale     == 110
DigitBits == 15
Base      == 2^DigitBits

RECURSIVE StripZeros(_)
StripZeros(n) ==
    IF n = <<>> THEN <<>>
    ELSE IF n[Len(n)] = 0 THEN StripZeros(SubSeq(n, 1, Len(n) - 1))
    ELSE n

NatOf(k) == StripZeros(<<k % Base, k \div Base>>)

Rest(n) == IF n = <<>> THEN <<>> ELSE Tail(n)

Low(n) == IF n = <<>> THEN 0 ELSE n[1]

RECURSIVE AddNat(_, _, _)
AddNat(a, b, carry) ==
    IF a = <<>> /\ b = <<>> THEN (IF carry = 0 THEN <<>> ELSE <<carry>>)
    ELSE LET s == Low(a) + Low(b) + carry
         IN  <<s % Base>> \o AddNat(Rest(a), Rest(b), s \div Base)

\* a - b - borrow for a >= b + borrow, leading zeros kept
RECURSIVE SubNatRaw(_, _, _)
SubNatRaw(a, b, borrow) ==
    IF a = <<>> THEN <<>>
    ELSE LET s == Low(a) - Low(b) - borrow
         IN  <<s % Base>> \o SubNatRaw(Rest(a), Rest(b), IF s < 0 THEN 1 ELSE 0)

SubNat(a, b) == StripZeros(SubNatRaw(a, b, 0))

\* a * d + carry for a digit d
RECURSIVE MulSmall(_, _, _)
MulSmall(a, d, carry) ==
    IF a = <<>> THEN (IF carry = 0 THEN <<>> ELSE <<carry>>)
    ELSE LET s == a[1] * d + carry
         IN  <<s % Base>> \o MulSmall(Tail(a), d, s \div Base)

RECURSIVE MulNat(_, _)
MulNat(a, b) ==
    IF a = <<>> \/ b = <<>> THEN <<>>
    ELSE LET high == MulNat(a, Tail(b))
         IN  AddNat(StripZeros(MulSmall(a, b[1], 0)),
                    IF high = <<>> THEN <<>> ELSE <<0>> \o high, 0)

\* the quotient (leading zeros kept) and the remainder of a by a digit d
RECURSIVE DivSmall(_, _)
DivSmall(a, d) ==
    IF a = <<>> THEN [q |-> <<>>, r |-> 0]
    ELSE LET high == DivSmall(Tail(a), d)
             cur  == Base * high.r + a[1]
         IN  [q |-> <<cur \div d>> \o high.q, r |-> cur % d]

\* a < b for digit strings of one length
RECURSIVE LessSameLen(_, _)
LessSameLen(a, b) ==
    IF a = <<>> THEN FALSE
    ELSE IF a[Len(a)] # b[Len(b)] THEN a[Len(a)] < b[Len(b)]
    ELSE LessSameLen(SubSeq(a, 1, Len(a) - 1), SubSeq(b, 1, Len(b) - 1))

LessNat(a, b) ==
    IF Len(a) # Len(b) THEN Len(a) < Len(b) ELSE LessSameLen(a, b)

\* n * 2^k
ShiftLeft(n, k) ==
    IF n = <<>> THEN <<>>
    ELSE [i \in 1..(k \div DigitBits) |-> 0]
           \o StripZeros(MulSmall(n, 2^(k % DigitBits), 0))

\* n \div 2^k
ShiftRight(n, k) ==
    StripZeros(DivSmall(SubSeq(n, (k \div DigitBits) + 1, Len(n)),
                        2^(k % DigitBits)).q)

\* the number of bits of n
BitLen(n) ==
    IF n = <<>> THEN 0
    ELSE DigitBits * (Len(n) - 1)
           + (CHOOSE k \in 1..DigitBits :
                2^(k - 1) <= n[Len(n)] /\ n[Len(n)] < 2^k)

\* the double nearest to the natural number n, ties to even
RoundDouble(n) ==
    IF BitLen(n) <= Precision THEN n
    ELSE LET cut     == BitLen(n) - Precision
             kept    == ShiftRight(n, cut)
             dropped == SubNat(n, ShiftLeft(kept, cut))
             half    == ShiftLeft(<<1>>, cut - 1)
             up      == \/ LessNat(half, dropped)
                        \/ half = dropped /\ kept[1] % 2 = 1
         IN  ShiftLeft(IF up THEN AddNat(kept, <<1>>, 0) ELSE kept, cut)

\* the decimal literal num/den of the source text as a double
Literal(num, den) ==
    LET d == DivSmall(ShiftLeft(NatOf(num), Scale - 1), den)
    IN  RoundDouble(AddNat(ShiftLeft(StripZeros(d.q), 1),
                           IF d.r = 0 THEN <<>> ELSE <<1>>, 0))

AddDouble(x, y) == RoundDouble(AddNat(x, y, 0))

\* x - y for x >= y
SubDouble(x, y) == RoundDouble(SubNat(x, y))

MulDouble(x, y) == RoundDouble(ShiftRight(MulNat(x, y), Scale))

\* Math.random() = k * 2^-Precision for a natural number k
RandomDouble(k) == ShiftLeft(k, Scale - Precision)

\* the largest values of Math.random(): 1 - j * 2^-Precision
RandomBelowOne(j) == SubNat(ShiftLeft(<<1>>, Precision), NatOf(j))

\* the value of Math.random() at or next below c thousandths
RandomThousandth(c) ==
    StripZeros(DivSmall(ShiftLeft(NatOf(c), Precision), 1000).q)

\* the integer n as a double, and Math.floor of a double below Base * Base
IntDouble(n) == ShiftLeft(NatOf(n), Scale)

FloorDouble(x) ==
    LET d == ShiftRight(x, Scale)
    IN  IF d = <<>> THEN 0
        ELSE IF Len(d) = 1 THEN d[1] ELSE d[1] + Base * d[2]

(***************************************************************************)
(* Random numbers, ids, rarity                                             *)
(***************************************************************************)
\* Math.floor(Math.random() * n) for Math.random() = the double r / 1000.
\* The product is rounded before the floor is taken: Math.floor(0.58 * 50)
\* is 28. The double product is within n * 2^-52 of r * n / 1000, so its
\* floor is that of the exact product unless r * n / 1000 is a whole number
\* other than 0; only then does the rounding decide.
RandIndex(r, n) ==
    IF (r * n) % 1000 # 0 \/ r * n = 0
    THEN (r * n) \div 1000
    ELSE FloorDouble(MulDouble(Literal(r, 1000), IntDouble(n)))

PickRands == {0, 501, 999}
RarityRands == {600}

\* drawRarity of the store
StoreDrawRarity(r) ==
    IF r < 600 THEN "blue"
    ELSE IF r < 800 THEN "purple"
    ELSE IF r < 920 THEN "pink"
    ELSE IF r < 990 THEN "red"
    ELSE "gold"

\* { id: uid(), name: n, starred: false } for the k-th new student
NewStudent(k, n) == [id |-> nextId + k, name |-> n, starred |-> FALSE]

\* what a call of drawNext, replaceRosterFromText or an App handler leaves in
\* the history variable `last`: its name, its argument (<<>> if it has
\* none), what it returned, and whether the pool was empty when it was made
Called(op, arg, ret) ==
    last' = [op |-> op, arg |-> arg, ret |-> ret,
             poolWasEmpty |-> (pool = <<>>)]

\* what any other call leaves in it
Other == [op |-> "other", arg |-> <<>>, ret |-> <<>>, poolWasEmpty |-> FALSE]

Init ==
    /\ roster = <<>>
    /\ pool = <<>>
    /\ settings = [noRepeat |-> TRUE, speed |-> "normal"]
    /\ history = <<>>
    /\ lastResult = <<>>
    /\ selectedStudent = <<>>
    /\ nextId = 0
    /\ clock = 0
    /\ currentPage = "home"
    /\ rollItems = <<>>
    /\ targetIndex = 0
    /\ timers = 0
    /\ gallery = <<>>
    /\ wear = <<>>
    /\ rarityDraw = <<>>
    /\ menu = <<>>
    /\ auto = <<>>
    /\ fetches = {}
    /\ reel = <<>>
    /\ last = Other
    /\ run = <<>>

(***************************************************************************)
(* Store operations                                                        *)
(***************************************************************************)
AddStudentPool(p, noRepeat, id) == IF noRepeat THEN Append(p, id) ELSE p

AddStudent(name) ==
    /\ nextId < MaxIds
    /\ LET student == NewStudent(1, Trim(name))
       IN /\ roster' = Append(roster, student)
          /\ pool' = AddStudentPool(pool, settings.noRepeat, student.id)
          /\ last' = Other
    /\ nextId' = nextId + 1
    /\ run' = <<>>
    /\ UNCHANGED <<settings, history, lastResult, selectedStudent, clock,
                   uiVars>>

\* mutant: removeStudent / drawNext leave the id in the pool
RemoveFromPoolKeep(p, id) == p

RemoveFromPool(p, id) == LET NotId(sid) == sid # id IN Filter(p, NotId)

RemoveFromRoster(r, id) == LET NotId(s) == s.id # id IN Filter(r, NotId)

\* mutant: the last result survives the removal of its student
RemoveStudentKeepResult(id) ==
    /\ roster' = RemoveFromRoster(roster, id)
    /\ pool' = RemoveFromPool(pool, id)
    /\ last' = [Other EXCEPT !.op = "removeStudent", !.arg = <<id>>]
    /\ run' = <<>>
    /\ UNCHANGED <<settings, history, lastResult, selectedStudent, envVars,
                   uiVars>>

RemoveStudent(id) ==
    /\ roster' = RemoveFromRoster(roster, id)
    /\ pool' = RemoveFromPool(pool, id)
    /\ IF lastResult # <<>> /\ lastResult[1].studentId = id
       THEN lastResult' = <<>> /\ selectedStudent' = <<>>
       ELSE UNCHANGED <<lastResult, selectedStudent>>
    /\ last' = [Other EXCEPT !.op = "removeStudent", !.arg = <<id>>]
    /\ run' = <<>>
    /\ UNCHANGED <<settings, history, envVars, uiVars>>

ToggleStar(id) ==
    /\ roster' = [i \in 1..Len(roster) |->
                    IF roster[i].id = id
                    THEN [roster[i] EXCEPT !.starred = ~roster[i].starred]
                    ELSE roster[i]]
    /\ last' = Other
    /\ run' = <<>>
    /\ UNCHANGED <<pool, settings, history, lastResult, selectedStudent,
                   envVars, uiVars>>

\* the students importFromText appends, one set() per name
ImportedStudents(names) == [k \in 1..Len(names) |-> NewStudent(k, names[k])]

ImportPool(p, noRepeat, students) == IF noRepeat THEN p \o Ids(students) ELSE p

ImportFromText(text) ==
    LET names == ParseNames(text)
        students == ImportedStudents(names)
    IN /\ nextId + Len(names) <= MaxIds
       /\ roster' = roster \o students
       /\ pool' = ImportPool(pool, settings.noRepeat, students)
       /\ nextId' = nextId + Len(names)
       /\ last' = Other
       /\ run' = <<>>
       /\ UNCHANGED <<settings, history, lastResult, selectedStudent, clock,
                      uiVars>>

\* mutant: the pool is rebuilt whatever the no-repeat setting
ReplacePoolAlways(noRepeat, newRoster) == Ids(newRoster)

ReplacePool(noRepeat, newRoster) == IF noRepeat THEN Ids(newRoster) ELSE <<>>

\* the store part of replaceRosterFromText; the caller adds last', run', uiVars'
ReplaceRosterCall(text) ==
    LET names == ParseNames(text)
        newRoster == ImportedStudents(names)
    IN /\ nextId + Len(names) <= MaxIds
       /\ roster' = newRoster
       /\ pool' = ReplacePool(settings.noRepeat, newRoster)
       /\ lastResult' = <<>>
       /\ selectedStudent' = <<>>
       /\ nextId' = nextId + Len(names)
       /\ UNCHANGED <<settings, history, clock>>

ReplaceRosterFromText(text) ==
    /\ ReplaceRosterCall(text)
    /\ Called("replaceRosterFromText", <<text>>, <<Len(roster')>>)
    /\ run' = <<>>
    /\ UNCHANGED uiVars

ResetPool ==
    /\ pool' = Ids(roster)
    /\ last' = Other
    /\ run' = <<>>
    /\ UNCHANGED <<roster, settings, history, lastResult, selectedStudent,
                   envVars, uiVars>>

SetSpeed(speed) ==
    /\ settings' = [settings EXCEPT !.speed = speed]
    /\ last' = Other
    /\ run' = <<>>
    /\ UNCHANGED <<roster, pool, history, lastResult, selectedStudent,
                   envVars, uiVars>>

\* mutant: the pool is rebuilt from the roster also when no-repeat is disabled
TogglePoolAlways(noRepeat, r) == Ids(r)

\* mutant: the pool is rebuilt only when no-repeat was disabled before
TogglePoolOnChange(noRepeat, r) ==
    IF noRepeat THEN (IF settings.noRepeat THEN pool ELSE Ids(r)) ELSE <<>>

TogglePool(noRepeat, r) == IF noRepeat THEN Ids(r) ELSE <<>>

\* toggleNoRepeat(value): value is <<b>> for a boolean, <<>> when omitted
ToggleNoRepeat(value) ==
    LET noRepeat == IF value # <<>> THEN value[1] ELSE ~settings.noRepeat
    IN /\ settings' = [settings EXCEPT !.noRepeat = noRepeat]
       /\ pool' = TogglePool(noRepeat, roster)
       /\ last' = Other
       /\ run' = <<>>
       /\ UNCHANGED <<roster, history, lastResult, selectedStudent, envVars,
                      uiVars>>

ClearHistory ==
    /\ history' = <<>>
    /\ last' = Other
    /\ run' = <<>>
    /\ UNCHANGED <<roster, pool, settings, lastResult, selectedStudent,
                   envVars, uiVars>>

(***************************************************************************)
(* drawNext                                                                *)
(***************************************************************************)
\* mutant: an exhausted pool is not refilled from the roster
SourceIdsNoFallback(p, r, noRepeat) == IF noRepeat THEN p ELSE Ids(r)

\* the ids drawNext chooses from
SourceIds(p, r, noRepeat) ==
    IF noRepeat THEN (IF Len(p) > 0 THEN p ELSE Ids(r)) ELSE Ids(r)

\* mutant: the drawn id stays in the pool
NextPoolKeep(p, r, noRepeat, studentId) ==
    IF noRepeat THEN (IF Len(p) > 0 THEN p ELSE Ids(r)) ELSE p

\* the pool drawNext leaves
NextPool(p, r, noRepeat, studentId) ==
    IF noRepeat
    THEN RemoveFromPool(IF Len(p) > 0 THEN p ELSE Ids(r), studentId)
    ELSE p

\* mutant: slice(0, 200), the oldest records are kept and the newest dropped
NextHistoryKeepOldest(h, result) ==
    LET all == Append(h, result)
    IN IF Len(all) <= HistoryLimit THEN all ELSE SubSeq(all, 1, HistoryLimit)

\* [...s.history, result].slice(-200)
NextHistory(h, result) == SliceLast(Append(h, result), HistoryLimit)

\* the student drawNext picks for the random number u: <<student>>, or <<>>
\* when it returns undefined
Picked(u) ==
    LET sourceIds == SourceIds(pool, roster, settings.noRepeat)
    IN IF Len(sourceIds) = 0 THEN <<>>
       ELSE Find(roster, sourceIds[RandIndex(u, Len(sourceIds)) + 1])

\* the history variable run: a run starts with a draw on a full pool in
\* no-repeat mode and goes on with the draws that follow it directly
NextRun(studentId) ==
    IF run # <<>> THEN Append(run, studentId)
    ELSE IF settings.noRepeat /\ roster # <<>> /\ pool = Ids(roster)
         THEN <<studentId>>
         ELSE <<>>

\* a call of drawNext with the random numbers u (index) and v (rarity), made
\* by `caller`; the caller adds uiVars'
DrawNextCall(u, v, caller) ==
    LET picked == Picked(u)
    IN IF picked = <<>>
       THEN /\ Called(caller, <<>>, <<>>)
            /\ run' = <<>>
            /\ UNCHANGED <<storeVars, envVars>>
       ELSE LET student == picked[1]
                result == [studentId |-> student.id,
                           rarity |-> StoreDrawRarity(v),
                           timestamp |-> clock + 1]
            IN /\ pool' = NextPool(pool, roster, settings.noRepeat, student.id)
               /\ lastResult' = <<result>>
               /\ selectedStudent' = <<student>>
               /\ history' = NextHistory(history, result)
               /\ clock' = clock + 1
               /\ Called(caller, <<>>, <<result>>)
               /\ run' = NextRun(student.id)
               /\ UNCHANGED <<roster, settings, nextId>>

DrawNext ==
    /\ clock < MaxDraws
    /\ \E u \in PickRands, v \in RarityRands : DrawNextCall(u, v, "drawNext")
    /\ UNCHANGED uiVars

(***************************************************************************)
(* The store on its own                                                    *)
(***************************************************************************)
RosterIds == Range(Ids(roster))

Next ==
    \/ \E name \in {<<"A">>, <<" ", "B">>} : AddStudent(name)
    \/ \E id \in RosterIds : RemoveStudent(id)
    \/ \E id \in RosterIds : ToggleStar(id)
    \/ \E text \in Texts : ImportFromText(text)
    \/ \E text \in Texts : ReplaceRosterFromText(text)
    \/ ResetPool
    \/ \E value \in {<<>>, <<TRUE>>, <<FALSE>>} : ToggleNoRepeat(value)
    \/ DrawNext
    \/ ClearHistory

Spec == Init /\ [][Next]_vars

(***************************************************************************)
(* App: the draw handler and the reel sequence                             *)
(***************************************************************************)
\* drawRarity of config/rarityConfig.ts, thresholds CUMULATIVE_PROBABILITIES
ConfigDrawRarity(r) ==
    IF r < 700 THEN "blue"
    ELSE IF r < 880 THEN "purple"
    ELSE IF r < 960 THEN "pink"
    ELSE IF r < 995 THEN "red"
    ELSE "gold"

RollRarity(r) == ConfigDrawRarity(r)

\* result.name: the property read on a record, undefined when it has none
ResultName(result) ==
    IF "name" \in DOMAIN result THEN <<result.name>> ELSE <<>>

\* a || b on optional strings: undefined and '' are falsy
Truthy(a) == a # <<>> /\ a[1] # <<>>
OrElse(a, b) == IF Truthy(a) THEN a ELSE b

\* `${n}` of an optional string
NameText(n) ==
    IF n = <<>> THEN <<"u", "n", "d", "e", "f", "i", "n", "e", "d">> ELSE n[1]

FillerCount(speed) ==
    IF speed = "fast" THEN 12 ELSE IF speed = "slow" THEN 24 ELSE 18

Max(a, b) == IF a >= b THEN a ELSE b

\* the random numbers of the start offset
StartRands == {0, 999}

\* the random numbers rollRarity reads for the fillers: pat, repeated
FillerPatterns == {<<0, 700, 995>>}

\* buildSequence(finalName, finalRarity): the tiles it hands to setRollItems;
\* w is the random number of the start offset, pat gives the fillers' rarities
BuildSequence(finalName, finalRarity, r, speed, w, pat) ==
    LET sourceNames == IF Len(r) > 0
                       THEN [i \in 1..Len(r) |-> <<r[i].name>>]
                       ELSE <<finalName>>
        fillerCount == FillerCount(speed)
        step == 7
        n == Max(1, Len(sourceNames))
        start == RandIndex(w, n)
        seq == [i \in 1..(fillerCount + 1) |->
                  IF i <= fillerCount
                  THEN OrElse(sourceNames[((start + (i - 1) * step) % n) + 1],
                              finalName)
                  ELSE finalName]
    IN [i \in 1..Len(seq) |->
          [id |-> <<i - 1, NameText(seq[i])>>,
           name |-> seq[i],
           rarity |-> IF i = Len(seq) THEN finalRarity
                      ELSE RollRarity(pat[((i - 1) % Len(pat)) + 1])]]

\* mutant: no check of the roster and none of the result of drawNext
HandleDrawUnchecked(proceed, u, v, w, pat) ==
    /\ currentPage = "home"
    /\ clock < MaxAppDraws
    /\ proceed
    /\ DrawNextCall(u, v, "handleDraw")
    /\ currentPage' = "roulette"
    /\ IF last'.ret = <<>>
       THEN UNCHANGED <<rollItems, targetIndex>>
       ELSE LET items == BuildSequence(ResultName(last'.ret[1]),
                                       last'.ret[1].rarity, roster',
                                       settings.speed, w, pat)
            IN /\ rollItems' = <<items>>
               /\ targetIndex' = Len(items) - 1
    /\ UNCHANGED <<timers, gallery, wear, rarityDraw, menu, auto, reel,
                   fetches>>

\* mutant: the draw button works on every page
HandleDrawAnyPage(proceed, u, v, w, pat) ==
    /\ clock < MaxAppDraws
    /\ IF Len(roster) = 0 \/ ~proceed
       THEN /\ Called("handleDraw", <<>>, <<>>)
            /\ run' = <<>>
            /\ UNCHANGED <<storeVars, envVars, uiVars>>
       ELSE /\ DrawNextCall(u, v, "handleDraw")
            /\ IF last'.ret = <<>>
               THEN /\ currentPage' = "home"
                    /\ UNCHANGED <<rollItems, targetIndex>>
               ELSE LET items == BuildSequence(ResultName(last'.ret[1]),
                                               last'.ret[1].rarity, roster',
                                               settings.speed, w, pat)
                    IN /\ currentPage' = "roulette"
                       /\ rollItems' = <<items>>
                       /\ targetIndex' = Len(items) - 1
            /\ UNCHANGED <<timers, gallery, wear, rarityDraw, menu, auto,
                           reel, fetches>>

\* handleDraw, called on the home page (where its button is rendered).
\* proceed: the audio is loaded or the user confirms drawing without it.
HandleDraw(proceed, u, v, w, pat) ==
    /\ currentPage = "home"
    /\ clock < MaxAppDraws
    /\ IF Len(roster) = 0 \/ ~proceed
       THEN /\ Called("handleDraw", <<>>, <<>>)
            /\ run' = <<>>
            /\ UNCHANGED <<storeVars, envVars, uiVars>>
       ELSE /\ DrawNextCall(u, v, "handleDraw")
            /\ IF last'.ret = <<>>
               THEN /\ currentPage' = "home"
                    /\ UNCHANGED <<rollItems, targetIndex>>
               ELSE LET items == BuildSequence(ResultName(last'.ret[1]),
                                               last'.ret[1].rarity, roster',
                                               settings.speed, w, pat)
                    IN /\ currentPage' = "roulette"
                       /\ rollItems' = <<items>>
                       /\ targetIndex' = Len(items) - 1
            /\ UNCHANGED <<timers, gallery, wear, rarityDraw, menu, auto,
                           reel, fetches>>

\* handleRouletteComplete, the reel's onComplete: the reel is mounted while
\* the page is 'roulette' and rollItems is set
HandleRouletteComplete ==
    /\ currentPage = "roulette"
    /\ rollItems # <<>>
    /\ timers' = timers + 1
    /\ currentPage' = "result"
    /\ last' = Other
    /\ UNCHANGED <<storeVars, envVars, rollItems, targetIndex, gallery, wear,
                   rarityDraw, menu, auto, reel, run, fetches>>

\* {rollItems && <Roulette ... />}: the reel, if there is one, is unmounted
Unmounted(r) == IF r = <<>> THEN r ELSE <<[r[1] EXCEPT !.mounted = FALSE]>>

\* the callback of setTimeout(() => setRollItems(null), 200)
ClearRollItems ==
    /\ timers > 0
    /\ timers' = timers - 1
    /\ rollItems' = <<>>
    /\ reel' = Unmounted(reel)
    /\ last' = Other
    /\ UNCHANGED <<storeVars, envVars, currentPage, targetIndex, gallery,
                   wear, rarityDraw, menu, auto, run, fetches>>

HandleContinue ==
    /\ currentPage = "result"
    /\ currentPage' = "home"
    /\ last' = Other
    /\ UNCHANGED <<storeVars, envVars, rollItems, targetIndex, timers,
                   gallery, wear, rarityDraw, menu, auto, reel, run,
                   fetches>>

HandleCloseResult ==
    /\ currentPage = "result"
    /\ currentPage' = "home"
    /\ last' = Other
    /\ UNCHANGED <<storeVars, envVars, rollItems, targetIndex, timers,
                   gallery, wear, rarityDraw, menu, auto, reel, run,
                   fetches>>

HandleResetPool ==
    /\ currentPage = "home"
    /\ ResetPool

(***************************************************************************)
(* SettingsModal, opened from the home page. className and the volumes are *)
(* not part of the modelled settings.                                      *)
(***************************************************************************)
\* handleSubmit: toggleNoRepeat(noRepeat); setSpeed(speed)
HandleSubmitCall(noRepeat, speed) ==
    /\ currentPage = "home"
    /\ settings' = [noRepeat |-> noRepeat, speed |-> speed]
    /\ pool' = TogglePool(noRepeat, roster)
    /\ run' = <<>>
    /\ UNCHANGED <<roster, history, lastResult, selectedStudent, envVars,
                   uiVars>>

HandleSubmit(noRepeat, speed) ==
    /\ HandleSubmitCall(noRepeat, speed)
    /\ last' = Other

\* the same handler, with the form's no-repeat value kept in `last`
HandleSubmitObserved(noRepeat, speed) ==
    /\ HandleSubmitCall(noRepeat, speed)
    /\ last' = [Other EXCEPT !.op = "handleSubmit", !.arg = <<noRepeat>>]

\* what the import handlers do after replaceRosterFromText returned cnt:
\* resetPool() if cnt > 0
PoolAfterImport(cnt, p, r) == IF cnt > 0 THEN Ids(r) ELSE p

\* handleManualImport; ok is the answer to the overwrite confirmation
HandleManualImport(manualText, ok) ==
    /\ currentPage = "home"
    /\ IF Trim(manualText) = <<>> \/ (Len(roster) > 0 /\ ~ok)
       THEN /\ last' = Other
            /\ run' = <<>>
            /\ UNCHANGED <<storeVars, envVars, uiVars>>
       ELSE LET text == Trim(manualText)
                names == ParseNames(text)
                newRoster == ImportedStudents(names)
            IN /\ nextId + Len(names) <= MaxIds
               /\ roster' = newRoster
               /\ pool' = PoolAfterImport(Len(newRoster),
                                          ReplacePool(settings.noRepeat, newRoster),
                                          newRoster)
               /\ lastResult' = <<>>
               /\ selectedStudent' = <<>>
               /\ nextId' = nextId + Len(names)
               /\ Called("handleManualImport", <<text>>, <<Len(newRoster)>>)
               /\ run' = <<>>
               /\ UNCHANGED <<settings, history, clock, uiVars>>

\* the first-column cells the CSV parser hands to handleReloadRoster
CsvCells == { <<>>, <<<<>>, <<"U+3000">>>>, <<<<"N", "A", "M", "E">>, <<"A">>>>,
              <<<<"A", " ">>, <<>>, <<"B">>>> }

\* n.toLowerCase() === 'name' || n === '\u59D3\u540D'
HeaderCell(n) ==
    \/ ToLowerCase(n) = <<"n", "a", "m", "e">>
    \/ n = <<"U+59D3", "U+540D">>

\* rows.map(trim).filter((n) => n && n.toLowerCase() !== 'name' && n !== '姓名')
CsvNames(cells) ==
    LET trimmed == [i \in 1..Len(cells) |-> Trim(cells[i])]
        Keep(n) == n # <<>> /\ ~HeaderCell(n)
    IN Filter(trimmed, Keep)

\* names.push(String(row.name).trim()) ... names.filter(Boolean): the name
\* cells of a workbook, whose header row sheet_to_json has already consumed
XlsxNames(cells) ==
    LET trimmed == [i \in 1..Len(cells) |-> Trim(cells[i])]
        Keep(n) == n # <<>>
    IN Filter(trimmed, Keep)

\* the name cells of the workbooks the imports read
XlsxCells == { <<<<" ">>>>, <<<<"n", "a", "m", "e">>, <<"B", " ">>>> }

\* The three file imports are asynchronous: the handler confirms, asks for
\* the file and returns; what it does with the file runs later, whatever the
\* page is by then. `fetches` holds the imports that wait for their file,
\* at most one of a kind.

\* handleReloadRoster up to `await fetch`; ok is the answer to the
\* confirmation
HandleReloadRoster(ok) ==
    /\ currentPage = "home"
    /\ "reload" \notin fetches
    /\ Cardinality(fetches) < MaxFetches
    /\ fetches' = IF ok THEN fetches \cup {"reload"} ELSE fetches
    /\ last' = Other
    /\ run' = <<>>
    /\ UNCHANGED <<storeVars, envVars, currentPage, rollItems, targetIndex,
                   timers, gallery, wear, rarityDraw, menu, auto, reel>>

\* the rest of handleReloadRoster; fetched says whether MD.csv could be
\* read, cells are its first-column cells
ReloadFetched(fetched, cells) ==
    /\ "reload" \in fetches
    /\ fetches' = fetches \ {"reload"}
    /\ IF ~fetched
       THEN /\ last' = Other
            /\ run' = <<>>
            /\ UNCHANGED <<storeVars, envVars>>
       ELSE LET text == JoinLines(CsvNames(cells))
                names == ParseNames(text)
                newRoster == ImportedStudents(names)
            IN /\ nextId + Len(names) <= MaxIds
               /\ roster' = newRoster
               /\ pool' = PoolAfterImport(Len(newRoster),
                                          ReplacePool(settings.noRepeat, newRoster),
                                          newRoster)
               /\ lastResult' = <<>>
               /\ selectedStudent' = <<>>
               /\ nextId' = nextId + Len(names)
               /\ Called("handleReloadRoster", <<text>>, <<Len(newRoster)>>)
               /\ run' = <<>>
               /\ UNCHANGED <<settings, history, clock>>
    /\ UNCHANGED <<currentPage, rollItems, targetIndex, timers, gallery, wear,
                   rarityDraw, menu, auto, reel>>

\* handleFileImport up to `await file.text()` / `await file.arrayBuffer()`;
\* picked says whether a .csv, .xlsx or .xls file was chosen, ok is the
\* answer to the overwrite confirmation
HandleFileImport(picked, ok) ==
    /\ currentPage = "home"
    /\ "file" \notin fetches
    /\ Cardinality(fetches) < MaxFetches
    /\ fetches' = IF picked /\ (Len(roster) = 0 \/ ok) THEN fetches \cup {"file"}
                  ELSE fetches
    /\ last' = Other
    /\ run' = <<>>
    /\ UNCHANGED <<storeVars, envVars, currentPage, rollItems, targetIndex,
                   timers, gallery, wear, rarityDraw, menu, auto, reel>>

\* the rest of handleFileImport; isCSV is the file's kind, read says whether
\* it could be read, cells are its first-column cells (CSV) or its name
\* cells (workbook)
FileRead(isCSV, read, cells) ==
    LET fileNames == IF isCSV THEN CsvNames(cells) ELSE XlsxNames(cells)
    IN
    /\ "file" \in fetches
    /\ fetches' = fetches \ {"file"}
    /\ IF ~read \/ fileNames = <<>>
       THEN /\ last' = Other
            /\ run' = <<>>
            /\ UNCHANGED <<storeVars, envVars>>
       ELSE LET text == JoinLines(fileNames)
                names == ParseNames(text)
                newRoster == ImportedStudents(names)
            IN /\ nextId + Len(names) <= MaxIds
               /\ roster' = newRoster
               /\ pool' = PoolAfterImport(Len(newRoster),
                                          ReplacePool(settings.noRepeat, newRoster),
                                          newRoster)
               /\ lastResult' = <<>>
               /\ selectedStudent' = <<>>
               /\ nextId' = nextId + Len(names)
               /\ Called("handleFileImport", <<text>>, <<Len(newRoster)>>)
               /\ run' = <<>>
               /\ UNCHANGED <<settings, history, clock>>
    /\ UNCHANGED <<currentPage, rollItems, targetIndex, timers, gallery, wear,
                   rarityDraw, menu, auto, reel>>

\* handleImportDemo up to `await fetch('/MD.csv')`; ok is the answer to the
\* overwrite confirmation
HandleImportDemo(ok) ==
    /\ currentPage = "home"
    /\ "demo" \notin fetches
    /\ Cardinality(fetches) < MaxFetches
    /\ fetches' = IF Len(roster) = 0 \/ ok THEN fetches \cup {"demo"} ELSE fetches
    /\ last' = Other
    /\ run' = <<>>
    /\ UNCHANGED <<storeVars, envVars, currentPage, rollItems, targetIndex,
                   timers, gallery, wear, rarityDraw, menu, auto, reel>>

\* the rest of handleImportDemo: importFromText of the names of MD.csv, or
\* of MD.xlsx when MD.csv gave none (the store is untouched until then), and
\* resetPool() if any was imported. fetched and xfetched say whether the two
\* files could be read, cells and xcells are their cells.
DemoFetched(fetched, cells, xfetched, xcells) ==
    LET csvNames == IF fetched THEN CsvNames(cells) ELSE <<>>
        demoNames == IF csvNames # <<>> THEN csvNames
                     ELSE IF xfetched THEN XlsxNames(xcells) ELSE <<>>
        names == ParseNames(JoinLines(demoNames))
        students == ImportedStudents(names)
    IN
    /\ "demo" \in fetches
    /\ fetches' = fetches \ {"demo"}
    /\ nextId + Len(names) <= MaxIds
    /\ roster' = roster \o students
    /\ pool' = PoolAfterImport(Len(names),
                               ImportPool(pool, settings.noRepeat, students),
                               roster \o students)
    /\ nextId' = nextId + Len(names)
    /\ last' = Other
    /\ run' = <<>>
    /\ UNCHANGED <<settings, history, lastResult, selectedStudent, clock>>
    /\ UNCHANGED <<currentPage, rollItems, targetIndex, timers, gallery, wear,
                   rarityDraw, menu, auto, reel>>

\* the "clear history" button of the settings modal; ok is the confirmation
HandleClearHistory(ok) ==
    /\ currentPage = "home"
    /\ Len(history) > 0
    /\ IF ok THEN history' = <<>> ELSE UNCHANGED history
    /\ last' = Other
    /\ run' = <<>>
    /\ UNCHANGED <<roster, pool, settings, lastResult, selectedStudent,
                   envVars, uiVars>>

\* getDrawnStudents(roster, pool, noRepeat): the roster entries not in the pool
GetDrawnStudents(r, p, noRepeat) ==
    IF ~noRepeat THEN <<>>
    ELSE LET NotInPool(st) == \A i \in 1..Len(p) : p[i] # st.id
         IN  SelectSeq(r, NotInPool)

\* every handler of the App but the settings form's save
AppHandlers ==
    \/ \E u \in PickRands, v \in RarityRands, w \in StartRands,
          pat \in FillerPatterns :
            HandleDraw(TRUE, u, v, w, pat)
    \/ HandleDraw(FALSE, 0, 0, 0, <<0>>)
    \/ HandleRouletteComplete
    \/ ClearRollItems
    \/ HandleContinue
    \/ HandleCloseResult
    \/ HandleResetPool
    \/ \E text \in Texts, ok \in BOOLEAN : HandleManualImport(text, ok)
    \/ \E ok \in BOOLEAN : HandleReloadRoster(ok)
    \/ \E fetched \in BOOLEAN, cells \in CsvCells : ReloadFetched(fetched, cells)
    \/ \E picked \in BOOLEAN, ok \in BOOLEAN : HandleFileImport(picked, ok)
    \/ \E read \in BOOLEAN, cells \in CsvCells : FileRead(TRUE, read, cells)
    \/ \E read \in BOOLEAN, cells \in XlsxCells : FileRead(FALSE, read, cells)
    \/ \E ok \in BOOLEAN : HandleImportDemo(ok)
    \/ \E fetched \in BOOLEAN, cells \in CsvCells, xfetched \in BOOLEAN, xcells \in XlsxCells :
            DemoFetched(fetched, cells, xfetched, xcells)
    \/ \E ok \in BOOLEAN : HandleClearHistory(ok)

AppNext ==
    \/ AppHandlers
    \/ \E noRepeat \in BOOLEAN, speed \in Speeds : HandleSubmit(noRepeat, speed)

\* the App alone
SpecApp == Init /\ [][AppNext]_vars

\* the App, its saves observed
SettingsNext ==
    \/ AppHandlers
    \/ \E noRepeat \in BOOLEAN, speed \in Speeds :
            HandleSubmitObserved(noRepeat, speed)

SpecSettings == Init /\ [][SettingsNext]_vars

\* the App, and drawNext called on the store directly
ApiDrawNext ==
    /\ clock < MaxAppDraws
    /\ \E u \in PickRands, v \in RarityRands : DrawNextCall(u, v, "drawNext")
    /\ UNCHANGED uiVars

ApiNext ==
    \/ AppNext
    \/ ApiDrawNext

SpecApi == Init /\ [][ApiNext]_vars

(***************************************************************************)
(* Gallery: the cards it renders from the store's history and roster and   *)
(* its query. The history holds the records drawNext wrote: a studentId,  *)
(* a rarity and a timestamp, and no `name` property.                       *)
(***************************************************************************)
\* the placeholder name, one element per character (U+672A U+77E5 U+5B66
\* U+751F)
Placeholder == <<"U+672A", "U+77E5", "U+5B66", "U+751F">>

\* String.prototype.includes
Includes(s, q) ==
    \E i \in 0..(Len(s) - Len(q)) : SubSeq(s, i + 1, i + Len(q)) = q

\* student?.name
StudentName(r, id) ==
    LET student == Find(r, id) IN IF student = <<>> THEN <<>> ELSE <<student[1].name>>

\* a filter that never looks the student up in the roster
GalleryFilterNameStored(item, r) ==
    OrElse(ResultName(item), <<Placeholder>>)[1]

\* the name the filter of filteredAndSortedHistory matches the query against
GalleryFilterName(item, r) ==
    OrElse(StudentName(r, item.studentId), <<Placeholder>>)[1]

\* the name on the card
GalleryDisplayName(item, r) ==
    OrElse(OrElse(StudentName(r, item.studentId), ResultName(item)),
           <<Placeholder>>)[1]

\* rarityOrderValue
RarityOrderValue(r) ==
    CASE r = "gold" -> 5
      [] r = "red" -> 4
      [] r = "pink" -> 3
      [] r = "purple" -> 2
      [] r = "blue" -> 1
      [] OTHER -> 0

\* wearOrderValue(a.wearLevel); a record without a wearLevel gets 0
WearOrderValue(item) ==
    IF "wearLevel" \notin DOMAIN item THEN 0
    ELSE CASE item.wearLevel = "factory-new" -> 5
           [] item.wearLevel = "minimal-wear" -> 4
           [] item.wearLevel = "field-tested" -> 3
           [] item.wearLevel = "well-worn" -> 2
           [] item.wearLevel = "battle-scarred" -> 1
           [] OTHER -> 0

\* the placeholder's characters in the order of the zh-CN collation (sheng,
\* wei, xue, zhi)
Pinyin == <<"U+751F", "U+672A", "U+5B66", "U+77E5">>

\* -1, 0 or 1 as x is before, equal to or after y, element by element, a
\* proper prefix first
RECURSIVE CompareSeq(_, _)
CompareSeq(x, y) ==
    IF x = <<>> THEN (IF y = <<>> THEN 0 ELSE -1)
    ELSE IF y = <<>> THEN 1
    ELSE IF Head(x) < Head(y) THEN -1
    ELSE IF Head(x) > Head(y) THEN 1
    ELSE CompareSeq(Tail(x), Tail(y))

\* nameA.localeCompare(nameB, 'zh-CN') for names of the letters A-Z, a-z and
\* the placeholder's characters: by character first, the Han characters (in
\* pinyin order) before the Latin letters, and between names of the same
\* letters lower case before upper case
LocaleCompare(a, b) ==
    LET IsLetter(c) == \E i \in 1..26 : LowerLetters[i] = c \/ UpperLetters[i] = c
        Letter(c) == CHOOSE i \in 1..26 : LowerLetters[i] = c \/ UpperLetters[i] = c
        IsHan(c) == \E j \in 1..Len(Pinyin) : Pinyin[j] = c
        Primary(c) == IF IsLetter(c) THEN Len(Pinyin) + Letter(c)
                      ELSE IF IsHan(c)
                           THEN CHOOSE j \in 1..Len(Pinyin) : Pinyin[j] = c
                           ELSE 0
        Tertiary(c) == IF \E i \in 1..26 : UpperLetters[i] = c THEN 1 ELSE 0
        byLetter == CompareSeq([i \in 1..Len(a) |-> Primary(a[i])],
                               [i \in 1..Len(b) |-> Primary(b[i])])
    IN IF byLetter # 0 THEN byLetter
       ELSE CompareSeq([i \in 1..Len(a) |-> Tertiary(a[i])],
                       [i \in 1..Len(b) |-> Tertiary(b[i])])

\* [...sortRules].sort((x, y) => x.priority - y.priority); the sort is
\* stable
SortByPriority(rules) ==
    LET RECURSIVE Insert(_, _)
        Insert(sorted, rule) ==
            IF sorted = <<>> THEN <<rule>>
            ELSE IF Head(sorted).priority - rule.priority <= 0
                 THEN <<Head(sorted)>> \o Insert(Tail(sorted), rule)
                 ELSE <<rule>> \o sorted
        RECURSIVE Sorted(_)
        Sorted(x) ==
            IF x = <<>> THEN <<>>
            ELSE Insert(Sorted(SubSeq(x, 1, Len(x) - 1)), x[Len(x)])
    IN Sorted(rules)

\* the comparison of one rule, before its order is applied
Comparison(key, a, b, r) ==
    CASE key = "time" -> a.timestamp - b.timestamp
      [] key = "rarity" -> RarityOrderValue(a.rarity) - RarityOrderValue(b.rarity)
      [] key = "wear" -> WearOrderValue(a) - WearOrderValue(b)
      [] key = "name" -> LocaleCompare(GalleryFilterName(a, r), GalleryFilterName(b, r))

\* the compare function of filtered.sort: the first rule, by priority, that
\* tells the two records apart decides
RECURSIVE CompareByRules(_, _, _, _)
CompareByRules(sortedRules, a, b, r) ==
    IF sortedRules = <<>> THEN 0
    ELSE LET rule == Head(sortedRules)
             comparison == Comparison(rule.key, a, b, r)
         IN IF comparison # 0
            THEN (IF rule.order = "desc" THEN 0 - comparison ELSE comparison)
            ELSE CompareByRules(Tail(sortedRules), a, b, r)

\* filtered.sort(compare) under the rules; the sort is stable
SortByRules(items, sortRules, r) ==
    LET Compare(a, b) == CompareByRules(SortByPriority(sortRules), a, b, r)
        RECURSIVE Insert(_, _)
        Insert(sorted, item) ==
            IF sorted = <<>> THEN <<item>>
            ELSE IF Compare(Head(sorted), item) <= 0
                 THEN <<Head(sorted)>> \o Insert(Tail(sorted), item)
                 ELSE <<item>> \o sorted
        RECURSIVE Sorted(_)
        Sorted(x) ==
            IF x = <<>> THEN <<>>
            ELSE Insert(Sorted(SubSeq(x, 1, Len(x) - 1)), x[Len(x)])
    IN Sorted(items)

\* filteredAndSortedHistory, and the card of each of its records
GalleryCards(h, r, q, sortRules) ==
    LET Matches(item) ==
            Includes(ToLowerCase(GalleryFilterName(item, r)), ToLowerCase(q))
        filtered == Filter(h, Matches)
        shown == IF Len(sortRules) > 0 THEN SortByRules(filtered, sortRules, r)
                 ELSE filtered
    IN [i \in 1..Len(shown) |->
          [record |-> shown[i], displayName |-> GalleryDisplayName(shown[i], r)]]

GalleryStudent(id, name) == [id |-> id, name |-> name, starred |-> FALSE]

\* rosters the gallery is opened on: both students, one of them, none
GalleryRosters ==
    { <<>>,
      <<GalleryStudent(1, <<"A">>)>>,
      <<GalleryStudent(2, <<"B">>)>>,
      <<GalleryStudent(1, <<"A">>), GalleryStudent(2, <<"B">>)>> }

\* the records drawNext wrote at time t, { studentId, rarity, timestamp }: of
\* student 1 as blue and as gold, of student 2 as gold
GalleryRecords(t) ==
    { [studentId |-> 1, rarity |-> "blue", timestamp |-> t],
      [studentId |-> 1, rarity |-> "gold", timestamp |-> t],
      [studentId |-> 2, rarity |-> "gold", timestamp |-> t] }

GalleryHistories ==
    {<<a>> : a \in GalleryRecords(1)}
    \cup {<<a, b>> : a \in GalleryRecords(1), b \in GalleryRecords(2)}

\* the queries typed: none, part of a name in the other case, no name, and
\* a character of the placeholder
GalleryQueries == { <<>>, <<"a">>, <<"B">>, <<"a", "b">>, <<"U+77E5">> }

\* useState<SortRule[]>([{ key: 'time', order: 'desc', priority: 1 }])
DefaultSortRules == <<[key |-> "time", order |-> "desc", priority |-> 1]>>

SortKeys == {"time", "rarity", "wear", "name"}

SortOrders == {"asc", "desc"}

\* the gallery after a state change: the cards are rendered again
Rendered(q, sortRules, showAdvancedSort) ==
    <<[query |-> q, sortRules |-> sortRules,
       showAdvancedSort |-> showAdvancedSort,
       cards |-> GalleryCards(history, roster, q, sortRules)]>>

\* the gallery is mounted on a persisted store, with an empty query and the
\* default rule
InitGallery ==
    /\ roster \in GalleryRosters
    /\ history \in GalleryHistories
    /\ pool = <<>>
    /\ settings = [noRepeat |-> FALSE, speed |-> "normal"]
    /\ lastResult = <<>>
    /\ selectedStudent = <<>>
    /\ nextId = 2
    /\ clock = 2
    /\ currentPage = "home"
    /\ rollItems = <<>>
    /\ targetIndex = 0
    /\ timers = 0
    /\ gallery = Rendered(<<>>, DefaultSortRules, FALSE)
    /\ wear = <<>>
    /\ rarityDraw = <<>>
    /\ menu = <<>>
    /\ auto = <<>>
    /\ fetches = {}
    /\ reel = <<>>
    /\ last = Other
    /\ run = <<>>

\* what a handler of the gallery leaves alone
GalleryFrame ==
    UNCHANGED <<storeVars, envVars, currentPage, rollItems, targetIndex,
                timers, wear, rarityDraw, menu, auto, reel, last, run, fetches>>

\* setQuery(e.target.value) and the render that follows it
SetQuery(q) ==
    /\ gallery # <<>>
    /\ gallery' = Rendered(q, gallery[1].sortRules, gallery[1].showAdvancedSort)
    /\ GalleryFrame

\* setShowAdvancedSort(!showAdvancedSort)
ToggleAdvancedSort ==
    /\ gallery # <<>>
    /\ gallery' = Rendered(gallery[1].query, gallery[1].sortRules,
                           ~gallery[1].showAdvancedSort)
    /\ GalleryFrame

\* sortRules[0]?.key || 'time' and sortRules[0]?.order || 'desc'
FirstRule(sortRules) ==
    IF sortRules = <<>> THEN [key |-> "time", order |-> "desc"]
    ELSE [key |-> sortRules[1].key, order |-> sortRules[1].order]

\* onChange of the sort field select of the simple controls
SelectSortKey(key) ==
    /\ gallery # <<>>
    /\ ~gallery[1].showAdvancedSort
    /\ gallery' = Rendered(gallery[1].query,
                           <<[key |-> key,
                              order |-> FirstRule(gallery[1].sortRules).order,
                              priority |-> 1]>>,
                           gallery[1].showAdvancedSort)
    /\ GalleryFrame

\* onChange of the sort order select of the simple controls
SelectSortOrder(order) ==
    /\ gallery # <<>>
    /\ ~gallery[1].showAdvancedSort
    /\ gallery' = Rendered(gallery[1].query,
                           <<[key |-> FirstRule(gallery[1].sortRules).key,
                              order |-> order,
                              priority |-> 1]>>,
                           gallery[1].showAdvancedSort)
    /\ GalleryFrame

\* sortRules.findIndex(rule => rule.key === key), from 1; 0 if there is none
RuleIndex(sortRules, key) ==
    IF \E i \in 1..Len(sortRules) : sortRules[i].key = key
    THEN CHOOSE i \in 1..Len(sortRules) :
            /\ sortRules[i].key = key
            /\ \A j \in 1..(i - 1) : sortRules[j].key # key
    ELSE 0

\* Math.max(...sortRules.map(r => r.priority), 0)
MaxPriorityOf(sortRules) ==
    IF sortRules = <<>> THEN 0
    ELSE CHOOSE m \in {sortRules[i].priority : i \in 1..Len(sortRules)} \cup {0} :
            \A i \in 1..Len(sortRules) : sortRules[i].priority <= m

\* the sort rules after addSortRule(key, order)
AddedSortRule(sortRules, key, order) ==
    LET existingIndex == RuleIndex(sortRules, key)
    IN IF existingIndex > 0
       THEN [sortRules EXCEPT ![existingIndex].order = order]
       ELSE Append(sortRules, [key |-> key, order |-> order,
                               priority |-> MaxPriorityOf(sortRules) + 1])

\* addSortRule, from a button of the advanced panel, which is disabled while
\* the key has a rule
AddSortRule(key, order) ==
    /\ gallery # <<>>
    /\ gallery[1].showAdvancedSort
    /\ RuleIndex(gallery[1].sortRules, key) = 0
    /\ MaxPriorityOf(gallery[1].sortRules) < MaxPriority
    /\ gallery' = Rendered(gallery[1].query,
                           AddedSortRule(gallery[1].sortRules, key, order),
                           gallery[1].showAdvancedSort)
    /\ GalleryFrame

\* removeSortRule, from the button of a rule, which is disabled while the
\* rule is the only one
RemoveSortRule(key) ==
    LET Keep(rule) == rule.key # key
    IN /\ gallery # <<>>
       /\ gallery[1].showAdvancedSort
       /\ RuleIndex(gallery[1].sortRules, key) > 0
       /\ Len(gallery[1].sortRules) > 1
       /\ gallery' = Rendered(gallery[1].query,
                              Filter(gallery[1].sortRules, Keep),
                              gallery[1].showAdvancedSort)
       /\ GalleryFrame

\* the sort rules after adjustPriority(key, direction)
AdjustedPriority(sortRules, key, direction) ==
    LET index == RuleIndex(sortRules, key)
        Swapped(i, j) ==
            SortByPriority([sortRules EXCEPT ![i].priority = sortRules[j].priority,
                                             ![j].priority = sortRules[i].priority])
    IN IF index = 0 THEN sortRules
       ELSE IF direction = "up" /\ index > 1 THEN Swapped(index, index - 1)
       ELSE IF direction = "down" /\ index < Len(sortRules)
            THEN Swapped(index, index + 1)
       ELSE sortRules

\* adjustPriority, from the arrows of a rule; the up arrow of the first rule
\* and the down arrow of the last are disabled
AdjustPriority(key, direction) ==
    LET index == RuleIndex(gallery[1].sortRules, key)
    IN /\ gallery # <<>>
       /\ gallery[1].showAdvancedSort
       /\ index > 0
       /\ IF direction = "up" THEN index > 1
          ELSE index < Len(gallery[1].sortRules)
       /\ gallery' = Rendered(gallery[1].query,
                              AdjustedPriority(gallery[1].sortRules, key, direction),
                              gallery[1].showAdvancedSort)
       /\ GalleryFrame

\* resetSortRules
ResetSortRules ==
    /\ gallery # <<>>
    /\ gallery[1].showAdvancedSort
    /\ gallery' = Rendered(gallery[1].query, DefaultSortRules,
                           gallery[1].showAdvancedSort)
    /\ GalleryFrame

GalleryNext ==
    \/ \E q \in GalleryQueries : SetQuery(q)
    \/ ToggleAdvancedSort
    \/ \E key \in SortKeys : SelectSortKey(key)
    \/ \E order \in SortOrders : SelectSortOrder(order)
    \/ \E key \in SortKeys, order \in SortOrders : AddSortRule(key, order)
    \/ \E key \in SortKeys : RemoveSortRule(key)
    \/ \E key \in SortKeys, direction \in {"up", "down"} : AdjustPriority(key, direction)
    \/ ResetSortRules

SpecGallery == InitGallery /\ [][GalleryNext]_vars

(***************************************************************************)
(* buildSequence on its own: the call handleDraw makes once drawNext has   *)
(* returned a result, for rosters of one, two, three (one name twice) and  *)
(* seven students, every speed, and results with and without a name.       *)
(***************************************************************************)
SequenceNames ==
    << <<"A">>, <<"B">>, <<"C">>, <<"D">>, <<"E">>, <<"F">>, <<"G">> >>

SequenceStudent(k, name) == [id |-> k, name |-> name, starred |-> FALSE]

SequenceRosters ==
    { [k \in 1..n |-> SequenceStudent(k, SequenceNames[k])] : n \in {1, 2, 7} }
    \cup { << SequenceStudent(1, <<"A">>), SequenceStudent(2, <<"B">>),
              SequenceStudent(3, <<"A">>) >> }

SequenceRarities == {"blue", "gold"}

\* the records drawNext may have returned for student: as the store builds
\* them, and with the student's name
SequenceResults(student) ==
    { [studentId |-> student.id, rarity |-> rarity, timestamp |-> 1] :
        rarity \in SequenceRarities }
    \cup { [studentId |-> student.id, rarity |-> rarity, timestamp |-> 1,
            name |-> student.name] : rarity \in SequenceRarities }

\* handleDraw has called drawNext and is about to call buildSequence
InitSequence ==
    /\ roster \in SequenceRosters
    /\ \E i \in {1, Len(roster)} :
         /\ selectedStudent = <<roster[i]>>
         /\ \E result \in SequenceResults(roster[i]) :
              /\ lastResult = <<result>>
              /\ history = <<result>>
    /\ pool = <<>>
    /\ settings \in [noRepeat : {FALSE}, speed : Speeds]
    /\ nextId = Len(roster)
    /\ clock = 1
    /\ currentPage = "roulette"
    /\ rollItems = <<>>
    /\ targetIndex = 0
    /\ timers = 0
    /\ gallery = <<>>
    /\ wear = <<>>
    /\ rarityDraw = <<>>
    /\ menu = <<>>
    /\ auto = <<>>
    /\ fetches = {}
    /\ reel = <<>>
    /\ last = Other
    /\ run = <<>>

\* mutant: the target tile is left out of the sequence
BuildSequenceStepNoTarget(w, pat) ==
    /\ rollItems = <<>>
    /\ lastResult # <<>>
    /\ LET items == BuildSequence(ResultName(lastResult[1]),
                                  lastResult[1].rarity, roster,
                                  settings.speed, w, pat)
       IN /\ rollItems' = <<SubSeq(items, 1, Len(items) - 1)>>
          /\ targetIndex' = Len(items) - 2
    /\ UNCHANGED <<storeVars, envVars, currentPage, timers, gallery, wear,
                   rarityDraw, menu, auto, reel, last, run, fetches>>

\* const finalName = result.name; buildSequence(finalName, result.rarity)
BuildSequenceStep(w, pat) ==
    /\ rollItems = <<>>
    /\ lastResult # <<>>
    /\ LET items == BuildSequence(ResultName(lastResult[1]),
                                  lastResult[1].rarity, roster,
                                  settings.speed, w, pat)
       IN /\ rollItems' = <<items>>
          /\ targetIndex' = Len(items) - 1
    /\ UNCHANGED <<storeVars, envVars, currentPage, timers, gallery, wear,
                   rarityDraw, menu, auto, reel, last, run, fetches>>

SequenceNext ==
    \E w \in StartRands, pat \in FillerPatterns : BuildSequenceStep(w, pat)

SpecSequence == InitSequence /\ [][SequenceNext]_vars

(***************************************************************************)
(* Roulette: the reel component. Lengths are in hundredths of a pixel      *)
(* where the code computes with fractions (PxUnit per pixel), in pixels    *)
(* where it measures. An animation started on the reel's motion value      *)
(* replaces the one that was running.                                      *)
(***************************************************************************)
PxUnit == 100

TileW == 120
TileGap == 8
Step == TileW + TileGap

\* parseFloat(styles.paddingLeft), parseFloat(styles.paddingRight): px-2
Pad == 8

\* Math.ceil(a / b), b > 0
CeilDiv(a, b) == -((-a) \div b)

\* Math.round of a length in hundredths: the nearest pixel, halves upwards
RoundPx(x) == ((x + (PxUnit \div 2)) \div PxUnit) * PxUnit

Abs(x) == IF x < 0 THEN -x ELSE x

\* what the container measures: getBoundingClientRect().width and clientWidth
Measures ==
    { [rect |-> 0, client |-> 0],
      [rect |-> 152, client |-> 150],
      [rect |-> 722, client |-> 720] }

\* the container before the ref is attached (first render)
NoElement == [rect |-> 0, client |-> 0]

\* const width = rectW || cw
Width(m) == IF m.rect # 0 THEN m.rect ELSE m.client

VisibleCount(contentW) == CeilDiv(contentW + TileGap, Step) + 1

Half(visibleCount) == CeilDiv(visibleCount, 2)

\* prepad of the finalX memo; padded says whether the element is there
FinalXPrepad(m, padded) ==
    LET pad == IF padded THEN Pad ELSE 0
        contentW == Max(0, Width(m) - pad - pad)
        visibleCount == IF contentW > 0 THEN VisibleCount(contentW) ELSE 0
    IN Half(visibleCount) + 1

\* (Math.random() - 0.5) * 30, in hundredths of a pixel
RandomOffset(r) == ((r - 500) * 30 * PxUnit) \div 1000

\* the finalX memo, in hundredths of a pixel
FinalX(m, padded, target, r) ==
    LET pad == IF padded THEN Pad ELSE 0
        contentW == Max(0, Width(m) - pad - pad)
        targetCenter == (target + FinalXPrepad(m, padded)) * Step * PxUnit
                        + (TileW * PxUnit) \div 2
        containerCenter == pad * PxUnit + (contentW * PxUnit) \div 2
    IN containerCenter - targetCenter + RandomOffset(r)

\* prepad of displayItems: 0 when it returns the items as they are
DisplayPrepad(m, padded) ==
    IF Width(m) <= 0 \/ ~padded THEN 0
    ELSE Half(VisibleCount(Width(m) - Pad - Pad)) + 1

\* prepad of the animation effect
EffectPrepad(m) ==
    IF Width(m) > 0
    THEN Half(VisibleCount(Max(0, Width(m) - Pad - Pad))) + 1
    ELSE 0

\* calc: the value it hands to setCenterOffset, in hundredths of a pixel
CalcCenterOffset(m) ==
    IF m.client <= 0 THEN 0
    ELSE Pad * PxUnit + ((m.client - Pad - Pad) * PxUnit) \div 2
         - (TileW * PxUnit) \div 2

\* localFinalX of the animation effect
LocalFinalX(centerOffset, m, target) ==
    centerOffset - (EffectPrepad(m) + target) * Step * PxUnit

\* the random numbers of randomOffset
OffsetRands == {0, 500, 999}

\* the animation effect: controls.set({ x: x0 }) and a frame requested that
\* will start the animation towards localFinalX
StartAnimation(r, centerOffset, m) ==
    [r EXCEPT !.animPrepad = EffectPrepad(m),
              !.x = centerOffset,
              !.end = LocalFinalX(centerOffset, m, targetIndex),
              !.phase = "scheduled",
              !.stopped = FALSE,
              !.starts = r.starts + 1]

\* Roulette is mounted in a container that measures m: the first render (the
\* ref is not attached yet), then its effects: calc, and the animation
\* effect with the centerOffset of that render, 0
MountReel(m, r) ==
    /\ currentPage = "roulette"
    /\ rollItems # <<>>
    /\ IF reel = <<>> THEN TRUE ELSE ~reel[1].mounted
    /\ LET rendered == [mounted |-> TRUE,
                        measure |-> m,
                        centerOffset |-> 0,
                        nextCenterOffset |-> CalcCenterOffset(m),
                        finalX |-> FinalX(NoElement, FALSE, targetIndex, r),
                        snapPrepad |-> FinalXPrepad(NoElement, FALSE),
                        shownPrepad |-> DisplayPrepad(NoElement, FALSE),
                        animPrepad |-> 0,
                        x |-> 0,
                        end |-> 0,
                        phase |-> "idle",
                        stopped |-> FALSE,
                        starts |-> 0,
                        completions |-> 0]
       IN reel' = <<StartAnimation(rendered, 0, m)>>
    /\ last' = Other
    /\ UNCHANGED <<storeVars, envVars, currentPage, rollItems, targetIndex,
                   timers, gallery, wear, rarityDraw, menu, auto, run, fetches>>

\* the render after setCenterOffset changed the state: the memos finalX and
\* displayItems are computed again and the animation effect runs again
RenderReel(r) ==
    /\ reel # <<>>
    /\ reel[1].mounted
    /\ reel[1].nextCenterOffset # reel[1].centerOffset
    /\ reel[1].starts < MaxStarts
    /\ LET m == reel[1].measure
           rendered == [reel[1] EXCEPT
                          !.centerOffset = reel[1].nextCenterOffset,
                          !.finalX = FinalX(m, TRUE, targetIndex, r),
                          !.snapPrepad = FinalXPrepad(m, TRUE),
                          !.shownPrepad = DisplayPrepad(m, TRUE)]
       IN reel' = <<StartAnimation(rendered, rendered.centerOffset, m)>>
    /\ last' = Other
    /\ UNCHANGED <<storeVars, envVars, currentPage, rollItems, targetIndex,
                   timers, gallery, wear, rarityDraw, menu, auto, run, fetches>>

\* the ResizeObserver callback: calc on a container that now measures m
ResizeReel(m) ==
    /\ reel # <<>>
    /\ reel[1].mounted
    /\ m # reel[1].measure
    /\ reel' = <<[reel[1] EXCEPT !.measure = m,
                                 !.nextCenterOffset = CalcCenterOffset(m)]>>
    /\ last' = Other
    /\ UNCHANGED <<storeVars, envVars, currentPage, rollItems, targetIndex,
                   timers, gallery, wear, rarityDraw, menu, auto, run, fetches>>

\* the requestAnimationFrame callback: controls.start({ x: x3, ... })
AnimationFrame ==
    /\ reel # <<>>
    /\ reel[1].mounted
    /\ reel[1].phase = "scheduled"
    /\ reel' = <<[reel[1] EXCEPT !.phase = "running"]>>
    /\ last' = Other
    /\ UNCHANGED <<storeVars, envVars, currentPage, rollItems, targetIndex,
                   timers, gallery, wear, rarityDraw, menu, auto, run, fetches>>

\* controls.set({ x: Math.round(finalX) })
Snap(r) == RoundPx(r.finalX)

\* onAnimationComplete: the snap, setStopped(true) and onComplete(), which is
\* handleRouletteComplete; the page leaves 'roulette' and the reel with it.
\* It checks nothing: a render that a setCenterOffset has asked for may
\* still be waiting, and the snap then goes to the finalX of the last render.
AnimationComplete ==
    /\ reel # <<>>
    /\ reel[1].mounted
    /\ reel[1].phase = "running"
    /\ reel' = <<[reel[1] EXCEPT !.x = Snap(reel[1]),
                                 !.phase = "stopped",
                                 !.stopped = TRUE,
                                 !.completions = reel[1].completions + 1,
                                 !.mounted = FALSE]>>
    /\ timers' = timers + 1
    /\ currentPage' = "result"
    /\ last' = Other
    /\ UNCHANGED <<storeVars, envVars, rollItems, targetIndex, gallery, wear,
                   rarityDraw, menu, auto, run, fetches>>

\* a draw has been made on a roster of one and its sequence built
InitReel ==
    /\ roster = <<SequenceStudent(1, <<"A">>)>>
    /\ selectedStudent = <<roster[1]>>
    /\ lastResult = <<[studentId |-> 1, rarity |-> "blue", timestamp |-> 1]>>
    /\ history = lastResult
    /\ pool = <<>>
    /\ settings \in [noRepeat : {TRUE}, speed : Speeds]
    /\ nextId = 1
    /\ clock = 1
    /\ currentPage = "roulette"
    /\ \E pat \in FillerPatterns :
         rollItems = <<BuildSequence(<<>>, "blue", roster, settings.speed, 0, pat)>>
    /\ targetIndex = FillerCount(settings.speed)
    /\ timers = 0
    /\ gallery = <<>>
    /\ wear = <<>>
    /\ rarityDraw = <<>>
    /\ menu = <<>>
    /\ auto = <<>>
    /\ fetches = {}
    /\ reel = <<>>
    /\ last = Other
    /\ run = <<>>

\* the reel, with the App around it: the result page, the next draw and the
\* timer that clears rollItems
ReelNext ==
    \/ \E m \in Measures, r \in OffsetRands : MountReel(m, r)
    \/ \E r \in OffsetRands : RenderReel(r)
    \/ \E m \in Measures : ResizeReel(m)
    \/ AnimationFrame
    \/ AnimationComplete
    \/ ClearRollItems
    \/ HandleContinue
    \/ HandleCloseResult
    \/ \E u \in PickRands, v \in RarityRands, w \in StartRands,
          pat \in FillerPatterns :
            HandleDraw(TRUE, u, v, w, pat)

SpecReel == InitReel /\ [][ReelNext]_vars

(***************************************************************************)
(* Wear values (rarityConfig.ts), in the number arithmetic defined above.  *)
(* Math.random() returns a multiple of 2^-Precision below 1 and the wear   *)
(* bounds are multiples of 2^-56, so every exact result here is a whole    *)
(* number of units.                                                        *)
(***************************************************************************)
\* Object.entries(WEAR_LEVELS), in insertion order
WearLevels ==
    << [level |-> "factory-new",    min |-> Literal(0, 100),  max |-> Literal(7, 100)],
       [level |-> "minimal-wear",   min |-> Literal(7, 100),  max |-> Literal(15, 100)],
       [level |-> "field-tested",   min |-> Literal(15, 100), max |-> Literal(38, 100)],
       [level |-> "well-worn",      min |-> Literal(38, 100), max |-> Literal(45, 100)],
       [level |-> "battle-scarred", min |-> Literal(45, 100), max |-> Literal(100, 100)] >>

WearConfig(level) ==
    WearLevels[CHOOSE i \in 1..Len(WearLevels) : WearLevels[i].level = level]

\* Math.random() * (config.max - config.min) + config.min
GenerateWearValue(wearLevel, random) ==
    LET config == WearConfig(wearLevel)
    IN  AddDouble(MulDouble(random, SubDouble(config.max, config.min)),
                  config.min)

\* the first entry with min <= wearValue < max, 'battle-scarred' without one
GetWearLevelFromValue(wearValue) ==
    LET hits == { i \in 1..Len(WearLevels) :
                    /\ ~LessNat(wearValue, WearLevels[i].min)
                    /\ LessNat(wearValue, WearLevels[i].max) }
    IN  IF hits = {} THEN "battle-scarred"
        ELSE WearLevels[CHOOSE i \in hits : \A j \in hits : i <= j].level

\* the values Math.random() takes in the model: the smallest, thousandths
\* across [0, 1) and the largest
WearRands ==
    { RandomDouble(RandomThousandth(c)) :
        c \in {0, 1, 69, 70, 71, 149, 150, 151, 250, 379, 380, 381, 449, 450,
               451, 500, 750, 900, 990, 999} }
    \cup { RandomDouble(NatOf(k)) : k \in 1..2 }
    \cup { RandomDouble(RandomBelowOne(j)) : j \in 1..4 }

\* generateWearValue is about to be called for a level
InitWear ==
    /\ roster = <<>>
    /\ pool = <<>>
    /\ settings = [noRepeat |-> TRUE, speed |-> "normal"]
    /\ history = <<>>
    /\ lastResult = <<>>
    /\ selectedStudent = <<>>
    /\ nextId = 0
    /\ clock = 0
    /\ currentPage = "home"
    /\ rollItems = <<>>
    /\ targetIndex = 0
    /\ timers = 0
    /\ gallery = <<>>
    /\ \E i \in 1..Len(WearLevels) :
         wear = <<[level |-> WearLevels[i].level, random |-> <<>>,
                   value |-> <<>>, back |-> <<>>]>>
    /\ rarityDraw = <<>>
    /\ menu = <<>>
    /\ auto = <<>>
    /\ fetches = {}
    /\ reel = <<>>
    /\ last = Other
    /\ run = <<>>

\* generateWearValue(wearLevel), Math.random() returning `random`
GenerateWear(random) ==
    /\ wear # <<>>
    /\ wear[1].value = <<>>
    /\ wear' = <<[wear[1] EXCEPT
                   !.random = <<random>>,
                   !.value  = <<GenerateWearValue(wear[1].level, random)>>]>>
    /\ UNCHANGED <<storeVars, envVars, currentPage, rollItems, targetIndex,
                   timers, gallery, rarityDraw, menu, auto, reel, last, run,
                   fetches>>

\* getWearLevelFromValue(wearValue) on the generated value
ReadWearLevel ==
    /\ wear # <<>>
    /\ wear[1].value # <<>>
    /\ wear[1].back = <<>>
    /\ wear' = <<[wear[1] EXCEPT
                   !.back = <<GetWearLevelFromValue(wear[1].value[1])>>]>>
    /\ UNCHANGED <<storeVars, envVars, currentPage, rollItems, targetIndex,
                   timers, gallery, rarityDraw, menu, auto, reel, last, run,
                   fetches>>

WearNext ==
    \/ \E random \in WearRands : GenerateWear(random)
    \/ ReadWearLevel

SpecWear == InitWear /\ [][WearNext]_vars

(***************************************************************************)
(* The two rarity samplers on one value of Math.random(): drawRarity of    *)
(* the store, which drawNext calls, and drawRarity of rarityConfig, which  *)
(* rollRarity calls for the filler tiles.                                  *)
(***************************************************************************)
\* Math.random() in thousandths, all of [0, 1)
SampleRands == 0..999

\* Math.random() has returned a value; no sampler has used it yet
InitRarityDraw ==
    /\ roster = <<>>
    /\ pool = <<>>
    /\ settings = [noRepeat |-> TRUE, speed |-> "normal"]
    /\ history = <<>>
    /\ lastResult = <<>>
    /\ selectedStudent = <<>>
    /\ nextId = 0
    /\ clock = 0
    /\ currentPage = "home"
    /\ rollItems = <<>>
    /\ targetIndex = 0
    /\ timers = 0
    /\ gallery = <<>>
    /\ wear = <<>>
    /\ \E r \in SampleRands :
         rarityDraw = <<[random |-> r, store |-> <<>>, filler |-> <<>>]>>
    /\ menu = <<>>
    /\ auto = <<>>
    /\ fetches = {}
    /\ reel = <<>>
    /\ last = Other
    /\ run = <<>>

\* drawRarity() of the store on that value
StoreSample ==
    /\ rarityDraw # <<>>
    /\ rarityDraw[1].store = <<>>
    /\ rarityDraw' = <<[rarityDraw[1] EXCEPT
                         !.store = <<StoreDrawRarity(rarityDraw[1].random)>>]>>
    /\ UNCHANGED <<storeVars, envVars, currentPage, rollItems, targetIndex,
                   timers, gallery, wear, menu, auto, reel, last, run, fetches>>

\* rollRarity() of App on that value
FillerSample ==
    /\ rarityDraw # <<>>
    /\ rarityDraw[1].filler = <<>>
    /\ rarityDraw' = <<[rarityDraw[1] EXCEPT
                         !.filler = <<RollRarity(rarityDraw[1].random)>>]>>
    /\ UNCHANGED <<storeVars, envVars, currentPage, rollItems, targetIndex,
                   timers, gallery, wear, menu, auto, reel, last, run, fetches>>

RarityNext ==
    \/ StoreSample
    \/ FillerSample

SpecRarity == InitRarityDraw /\ [][RarityNext]_vars

(***************************************************************************)
(* drawRarity of config/rarityConfig.ts in number arithmetic: the          *)
(* cumulative thresholds are sums of the tier probabilities, computed in   *)
(* doubles when the module is loaded.                                      *)
(***************************************************************************)
RarityProbabilities ==
    [BLUE   |-> Literal(70, 100),
     PURPLE |-> Literal(18, 100),
     PINK   |-> Literal(8, 100),
     RED    |-> Literal(35, 1000),
     GOLD   |-> Literal(5, 1000)]

CumulativeProbabilities ==
    LET p == RarityProbabilities
    IN  [BLUE   |-> p.BLUE,
         PURPLE |-> AddDouble(p.BLUE, p.PURPLE),
         PINK   |-> AddDouble(AddDouble(p.BLUE, p.PURPLE), p.PINK),
         RED    |-> AddDouble(AddDouble(AddDouble(p.BLUE, p.PURPLE), p.PINK),
                              p.RED),
         GOLD   |-> Literal(1, 1)]

DrawRarity(random) ==
    IF LessNat(random, CumulativeProbabilities.BLUE) THEN "blue"
    ELSE IF LessNat(random, CumulativeProbabilities.PURPLE) THEN "purple"
    ELSE IF LessNat(random, CumulativeProbabilities.PINK) THEN "pink"
    ELSE IF LessNat(random, CumulativeProbabilities.RED) THEN "red"
    ELSE "gold"

\* values of Math.random(): every hundredth, and the values at and next to
\* each cumulative threshold
ThresholdRands ==
    { RandomDouble(RandomThousandth(10 * c)) : c \in 0..99 }
    \cup { SubNat(t, RandomDouble(NatOf(j))) :
             t \in { CumulativeProbabilities.BLUE,
                     CumulativeProbabilities.PURPLE,
                     CumulativeProbabilities.PINK,
                     CumulativeProbabilities.RED },
             j \in 0..2 }
    \cup { AddNat(t, RandomDouble(NatOf(j)), 0) :
             t \in { CumulativeProbabilities.BLUE,
                     CumulativeProbabilities.PURPLE,
                     CumulativeProbabilities.PINK,
                     CumulativeProbabilities.RED },
             j \in 1..2 }

\* Math.random() has returned a value in drawRarity
InitThreshold ==
    /\ roster = <<>>
    /\ pool = <<>>
    /\ settings = [noRepeat |-> TRUE, speed |-> "normal"]
    /\ history = <<>>
    /\ lastResult = <<>>
    /\ selectedStudent = <<>>
    /\ nextId = 0
    /\ clock = 0
    /\ currentPage = "home"
    /\ rollItems = <<>>
    /\ targetIndex = 0
    /\ timers = 0
    /\ gallery = <<>>
    /\ wear = <<>>
    /\ \E r \in ThresholdRands :
         rarityDraw = <<[random |-> r, config |-> <<>>]>>
    /\ menu = <<>>
    /\ auto = <<>>
    /\ fetches = {}
    /\ reel = <<>>
    /\ last = Other
    /\ run = <<>>

\* drawRarity() returns the tier of that value
ConfigSample ==
    /\ rarityDraw # <<>>
    /\ rarityDraw[1].config = <<>>
    /\ rarityDraw' = <<[rarityDraw[1] EXCEPT
                         !.config = <<DrawRarity(rarityDraw[1].random)>>]>>
    /\ UNCHANGED <<storeVars, envVars, currentPage, rollItems, targetIndex,
                   timers, gallery, wear, menu, auto, reel, last, run, fetches>>

ThresholdNext == ConfigSample

SpecThreshold == InitThreshold /\ [][ThresholdNext]_vars

(***************************************************************************)
(* ResultScreen and its CompletionMenu, rendered by App with handleContinue*)
(* and handleCloseResult as callbacks. lockClose and autoRolling are props *)
(* of the screen; the parent may pass any values and change them.          *)
(***************************************************************************)
\* isOpen && lastResult && selectedStudent
ResultOpen ==
    /\ currentPage = "result"
    /\ lastResult # <<>>
    /\ selectedStudent # <<>>

\* an overlay click handler without the lock
OverlayClickUnlocked(props) == "onClose"

\* handleOverlayClick: the callback it invokes
OverlayClickCalls(props) == IF props.lockClose THEN "none" ELSE "onClose"

\* handleClose of the menu
CloseClickCalls(props) == IF props.lockClose THEN "none" ELSE "onClose"

\* handleContinue of the menu
ContinueClickCalls(props) == IF props.autoRolling THEN "none" ELSE "onContinue"

\* a click on `target` has invoked `called`: onClose is handleCloseResult and
\* onContinue is handleContinue, both of which show the home page
Clicked(target, called) ==
    /\ menu' = <<[menu[1] EXCEPT
                   !.clicks    = @ + 1,
                   !.target    = target,
                   !.called    = called,
                   !.closes    = IF called = "onClose" THEN @ + 1 ELSE @,
                   !.continues = IF called = "onContinue" THEN @ + 1 ELSE @]>>
    /\ currentPage' = IF called = "none" THEN currentPage ELSE "home"
    /\ last' = Other
    /\ UNCHANGED <<storeVars, envVars, rollItems, targetIndex, timers, gallery,
                   wear, rarityDraw, auto, reel, run, fetches>>

CanClick ==
    /\ menu # <<>>
    /\ ResultOpen
    /\ menu[1].clicks < MaxClicks

\* a click on the backdrop, or on the menu's strip beside its buttons, which
\* bubbles to the backdrop
ClickOverlay ==
    /\ CanClick
    /\ Clicked("overlay", OverlayClickCalls(menu[1]))

\* a click on the result card: onClick={(e) => e.stopPropagation()}
ClickCard ==
    /\ CanClick
    /\ Clicked("card", "none")

\* a click on the close button, rendered unless lockClose
ClickClose ==
    /\ CanClick
    /\ ~menu[1].lockClose
    /\ Clicked("close", CloseClickCalls(menu[1]))

\* a click on the continue button. While it is disabled its own handler is
\* not called, and the browser either drops the click or lets the elements
\* around the button see it (bubbles).
ClickContinue(bubbles) ==
    /\ CanClick
    /\ Clicked("continue",
               IF menu[1].autoRolling
               THEN (IF bubbles THEN OverlayClickCalls(menu[1]) ELSE "none")
               ELSE ContinueClickCalls(menu[1]))

\* the parent renders the screen with other flags
SetFlags(lockClose, autoRolling) ==
    /\ menu # <<>>
    /\ <<lockClose, autoRolling>> # <<menu[1].lockClose, menu[1].autoRolling>>
    /\ menu' = <<[menu[1] EXCEPT !.lockClose = lockClose,
                                 !.autoRolling = autoRolling,
                                 !.target = "none",
                                 !.called = "none"]>>
    /\ UNCHANGED <<storeVars, envVars, currentPage, rollItems, targetIndex,
                   timers, gallery, wear, rarityDraw, auto, reel, last, run,
                   fetches>>

\* the result screen is open on the first draw of a one-student roster
InitMenu ==
    /\ roster = <<SequenceStudent(1, <<"A">>)>>
    /\ selectedStudent = <<roster[1]>>
    /\ lastResult = <<[studentId |-> 1, rarity |-> "blue", timestamp |-> 1]>>
    /\ history = lastResult
    /\ pool = <<>>
    /\ settings = [noRepeat |-> TRUE, speed |-> "normal"]
    /\ nextId = 1
    /\ clock = 1
    /\ currentPage = "result"
    /\ rollItems = <<>>
    /\ targetIndex = FillerCount(settings.speed)
    /\ timers = 0
    /\ gallery = <<>>
    /\ wear = <<>>
    /\ rarityDraw = <<>>
    /\ \E lockClose \in BOOLEAN, autoRolling \in BOOLEAN :
         menu = <<[lockClose |-> lockClose, autoRolling |-> autoRolling,
                   clicks |-> 0, target |-> "none", called |-> "none",
                   closes |-> 0, continues |-> 0]>>
    /\ auto = <<>>
    /\ fetches = {}
    /\ reel = <<>>
    /\ last = Other
    /\ run = <<>>

MenuNext ==
    \/ ClickOverlay
    \/ ClickCard
    \/ ClickClose
    \/ \E bubbles \in BOOLEAN : ClickContinue(bubbles)
    \/ \E lockClose \in BOOLEAN, autoRolling \in BOOLEAN :
          SetFlags(lockClose, autoRolling)
    \/ \E u \in PickRands, v \in RarityRands, w \in StartRands,
          pat \in FillerPatterns :
            HandleDraw(TRUE, u, v, w, pat)
    \/ HandleRouletteComplete
    \/ ClearRollItems

SpecMenu == InitMenu /\ [][MenuNext]_vars

(***************************************************************************)
(* The auto multi-draw ("5x"). Its orchestrator is not among the files of  *)
(* the repository at hand (ResultScreenProps declares the flags it sets),  *)
(* so it is modelled from the specification's state machine: Idle,         *)
(* Rolling(n), Revealed(n), Done. A cycle draws as handleDraw does and     *)
(* reveals as handleRouletteComplete does. The pause between a reveal and  *)
(* the next cycle outlasts the 200 ms timer that clears rollItems.         *)
(***************************************************************************)
AutoCount == 5

Running(a) == a.state \in {"Rolling", "Revealed"}

\* a pause that is always followed by another cycle
AfterPauseAlwaysRolling(n) == "Rolling"

\* Revealed(n) --pauseElapsed--> Rolling(n+1) if n < N, else Done
AfterPause(n) == IF n < AutoCount THEN "Rolling" ELSE "Done"

\* one cycle's draw: drawNext, buildSequence, the reel is shown
AutoDraw(u, v, w, pat) ==
    /\ DrawNextCall(u, v, "autoDraw")
    /\ LET items == BuildSequence(ResultName(last'.ret[1]),
                                  last'.ret[1].rarity, roster',
                                  settings.speed, w, pat)
       IN /\ currentPage' = "roulette"
          /\ rollItems' = <<items>>
          /\ targetIndex' = Len(items) - 1
    /\ UNCHANGED <<timers, gallery, wear, rarityDraw, menu, reel, fetches>>

\* Idle --start--> Rolling(1), from the home page, once
StartAuto(u, v, w, pat) ==
    /\ auto # <<>>
    /\ auto[1].state = "Idle"
    /\ ~auto[1].started
    /\ currentPage = "home"
    /\ roster # <<>>
    /\ AutoDraw(u, v, w, pat)
    /\ auto' = <<[auto[1] EXCEPT !.state = "Rolling", !.n = 1, !.draws = 1,
                                 !.started = TRUE]>>

\* Rolling(n) --animationComplete--> Revealed(n)
AutoAnimationComplete ==
    /\ auto # <<>>
    /\ auto[1].state = "Rolling"
    /\ rollItems # <<>>
    /\ auto' = <<[auto[1] EXCEPT !.state = "Revealed"]>>
    /\ timers' = timers + 1
    /\ currentPage' = "result"
    /\ last' = Other
    /\ UNCHANGED <<storeVars, envVars, rollItems, targetIndex, gallery, wear,
                   rarityDraw, menu, reel, run, fetches>>

\* Revealed(n) --pauseElapsed--> Rolling(n+1) or Done
AutoPauseElapsed(u, v, w, pat) ==
    /\ auto # <<>>
    /\ auto[1].state = "Revealed"
    /\ timers = 0
    /\ IF AfterPause(auto[1].n) = "Rolling"
       THEN /\ AutoDraw(u, v, w, pat)
            /\ auto' = <<[auto[1] EXCEPT !.state = "Rolling", !.n = @ + 1,
                                         !.draws = @ + 1]>>
       ELSE /\ auto' = <<[auto[1] EXCEPT !.state = "Done"]>>
            /\ last' = Other
            /\ UNCHANGED <<storeVars, envVars, currentPage, rollItems,
                           targetIndex, timers, gallery, wear, rarityDraw,
                           menu, reel, run, fetches>>

\* removeStudent(id) during the sequence; a roster that becomes empty aborts
\* the sequence to Idle at once and the home page is shown
AutoRemoveStudent(id) ==
    /\ auto # <<>>
    /\ Running(auto[1])
    /\ id \in Range(Ids(roster))
    /\ roster' = RemoveFromRoster(roster, id)
    /\ pool' = RemoveFromPool(pool, id)
    /\ IF lastResult # <<>> /\ lastResult[1].studentId = id
       THEN lastResult' = <<>> /\ selectedStudent' = <<>>
       ELSE UNCHANGED <<lastResult, selectedStudent>>
    /\ IF roster' = <<>>
       THEN /\ auto' = <<[auto[1] EXCEPT !.state = "Idle", !.aborted = TRUE]>>
            /\ currentPage' = "home"
       ELSE UNCHANGED <<auto, currentPage>>
    /\ last' = Other
    /\ run' = <<>>
    /\ UNCHANGED <<settings, history, envVars, rollItems, targetIndex, timers,
                   gallery, wear, rarityDraw, menu, reel, fetches>>

\* the home page of a roster of one or two students, no draw made yet
InitAuto ==
    /\ \E k \in 1..2 :
         roster = [i \in 1..k |-> SequenceStudent(i, SequenceNames[i])]
    /\ \E noRepeat \in BOOLEAN :
         /\ settings = [noRepeat |-> noRepeat, speed |-> "normal"]
         /\ pool = IF noRepeat THEN Ids(roster) ELSE <<>>
    /\ history = <<>>
    /\ lastResult = <<>>
    /\ selectedStudent = <<>>
    /\ nextId = Len(roster)
    /\ clock = 0
    /\ currentPage = "home"
    /\ rollItems = <<>>
    /\ targetIndex = 0
    /\ timers = 0
    /\ gallery = <<>>
    /\ wear = <<>>
    /\ rarityDraw = <<>>
    /\ menu = <<>>
    /\ auto = <<[state |-> "Idle", n |-> 0, draws |-> 0, started |-> FALSE,
                 aborted |-> FALSE]>>
    /\ fetches = {}
    /\ reel = <<>>
    /\ last = Other
    /\ run = <<>>

AutoStep ==
    \E u \in PickRands, v \in RarityRands, w \in StartRands,
       pat \in FillerPatterns : AutoPauseElapsed(u, v, w, pat)

AutoNext ==
    \/ \E u \in PickRands, v \in RarityRands, w \in StartRands,
          pat \in FillerPatterns : StartAuto(u, v, w, pat)
    \/ AutoAnimationComplete
    \/ AutoStep
    \/ \E id \in 1..MaxIds : AutoRemoveStudent(id)
    \/ ClearRollItems

\* the animation ends, the timer fires and the pause elapses
SpecAuto ==
    /\ InitAuto
    /\ [][AutoNext]_vars
    /\ WF_vars(AutoAnimationComplete)
    /\ WF_vars(ClearRollItems)
    /\ WF_vars(AutoStep)

(***************************************************************************)
(* A long session of draws on a one-student roster, every random number 0  *)
(* for the index and 600 for the rarity: the history fills up and is       *)
(* truncated.                                                              *)
(***************************************************************************)
FirstStudent ==
    /\ roster = <<>>
    /\ AddStudent(<<"A">>)

LongDraw ==
    /\ clock < MaxLongDraws
    /\ DrawNextCall(0, 600, "drawNext")
    /\ UNCHANGED uiVars

HistoryNext ==
    \/ FirstStudent
    \/ LongDraw

SpecHistory == Init /\ [][HistoryNext]_vars

(***************************************************************************)
(* Claims                                                                  *)
(***************************************************************************)
Distinct(s) == \A i, j \in 1..Len(s) : i # j => s[i] # s[j]

\* C1: in no-repeat mode, the first R consecutive successful drawNext calls on
\* a pool that holds all R roster ids return R pairwise different studentIds.
C1_NoRepeatBeforeExhaustion ==
    Len(run) <= Len(roster) => Distinct(run)

\* every student of a roster of at least two has been drawn once in one run
C1_Witness ==
    /\ Len(roster) >= 2
    /\ Len(run) = Len(roster)
    /\ last.op = "drawNext"

\* C2: drawNext on an empty pool, in no-repeat mode and with a non-empty
\* roster, returns a result whose student is a roster student and leaves the
\* pool equal to the roster ids, in roster order, without the chosen one.
C2_EmptyPoolFallsBackToRoster ==
    (/\ last.op = "drawNext"
     /\ last.poolWasEmpty
     /\ settings.noRepeat
     /\ roster # <<>>)
    => /\ last.ret # <<>>
       /\ \E i \in 1..Len(roster) :
            /\ roster[i].id = last.ret[1].studentId
            /\ pool = [k \in 1..(Len(roster) - 1) |->
                         IF k < i THEN roster[k].id ELSE roster[k + 1].id]

\* the fallback draw chose the last student of a roster of at least two
C2_Witness ==
    /\ last.op = "drawNext"
    /\ last.poolWasEmpty
    /\ settings.noRepeat
    /\ Len(roster) >= 2
    /\ last.ret # <<>>
    /\ last.ret[1].studentId = roster[Len(roster)].id
    /\ Len(pool) = Len(roster) - 1

\* C3: every id in the pool is the id of a current roster entry.
C3_PoolWithinRoster ==
    \A i \in 1..Len(pool) : \E j \in 1..Len(roster) : roster[j].id = pool[i]

\* a student was removed or replaced and the pool still holds students
C3_Witness ==
    /\ pool # <<>>
    /\ nextId > Len(roster)

\* C6: with an empty roster drawNext, called directly or by handleDraw,
\* returns undefined and changes nothing; and handleDraw starts no reel:
\* rollItems stays as it was and the page is 'home' afterwards.
C6_EmptyRosterDrawIsNoOp ==
    [][(roster = <<>> /\ last'.op \in {"drawNext", "handleDraw"})
       => /\ last'.ret = <<>>
          /\ UNCHANGED <<roster, pool, settings, history, lastResult,
                         selectedStudent>>
          /\ last'.op = "handleDraw" => /\ rollItems' = rollItems
                                        /\ currentPage' = "home"]_vars

\* handleDraw was called on a roster that had been emptied, after a draw
C6_Witness ==
    /\ last.op = "handleDraw"
    /\ roster = <<>>
    /\ history # <<>>
    /\ rollItems = <<>>
    /\ currentPage = "home"

\* Date.now() is read once per successful draw, so clock counts them and
\* the record of the k-th draw has timestamp k
SuccessfulDraws == clock

\* C4: the history never holds more than its capacity of records, its
\* records are in insertion order, and right after the draw that makes
\* capacity + 1 (or more) successful draws the record of the first draw is
\* gone and the record of that latest draw is the last element. This holds
\* for the configured capacity, MaxHistoryRecords, and for the length
\* drawNext truncates to, HistoryLimit.
C4_HistoryBounded ==
    \A capacity \in {MaxHistoryRecords, HistoryLimit} :
        /\ Len(history) <= capacity
        /\ \A i \in 1..(Len(history) - 1) :
             history[i].timestamp < history[i + 1].timestamp
        /\ (/\ SuccessfulDraws >= capacity + 1
            /\ last.op = "drawNext"
            /\ last.ret # <<>>)
           => /\ history # <<>>
              /\ \A i \in 1..Len(history) : history[i].timestamp # 1
              /\ history[Len(history)] = last.ret[1]

\* the draw after MaxHistoryRecords draws has just been made
C4_Witness ==
    /\ SuccessfulDraws = MaxHistoryRecords + 1
    /\ last.op = "drawNext"
    /\ last.ret # <<>>
    /\ history # <<>>

\* C5: while the history holds fewer than MaxHistoryRecords records, a
\* successful drawNext appends its record and removes none.
C5_NoEvictionBelowMax ==
    [][(/\ last'.op = "drawNext"
        /\ last'.ret # <<>>
        /\ Len(history) < MaxHistoryRecords)
       => history' = Append(history, last'.ret[1])]_vars

\* C7: the record drawNext creates carries the name the drawn student has in
\* the roster at draw time.
C7_ResultCarriesName ==
    (last.op = "drawNext" /\ last.ret # <<>>)
    => ResultName(last.ret[1]) = <<selectedStudent[1].name>>

C9_BlankImportKeepsRoster ==
    [][(last'.op = "replaceRosterFromText" /\ last'.ret = <<0>>)
       => (roster' = roster /\ pool' = pool)]_vars

\* C10: right after replaceRosterFromText(text) the roster holds one fresh,
\* unstarred entry per non-blank line of text, in order, under its trimmed
\* name; the call returned their count; the pool is the roster's ids in
\* roster order under no-repeat and empty otherwise; lastResult and
\* selectedStudent are cleared.
C10_ReplaceRosterRebuilds ==
    last.op = "replaceRosterFromText" =>
      LET names == ParseNames(last.arg[1])
      IN /\ last.ret = <<Len(names)>>
         /\ Len(roster) = Len(names)
         /\ \A i \in 1..Len(roster) :
              /\ roster[i].name = names[i]
              /\ roster[i].name # <<>>
              /\ roster[i].starred = FALSE
              /\ roster[i].id = nextId - Len(roster) + i
         /\ Distinct(Ids(roster))
         /\ pool = (IF settings.noRepeat THEN Ids(roster) ELSE <<>>)
         /\ lastResult = <<>>
         /\ selectedStudent = <<>>

\* a text with a name replaced a roster, with no-repeat off and after a draw
C10_Witness ==
    /\ last.op = "replaceRosterFromText"
    /\ last.ret = <<1>>
    /\ roster # <<>>
    /\ ~settings.noRepeat
    /\ history # <<>>
    /\ nextId > Len(roster)

\* C11: toggleNoRepeat(true) sets the pool to the roster ids in roster order
\* and toggleNoRepeat(false) empties it; either way the roster and the
\* history are unchanged and settings.noRepeat is the given value.
C11_ToggleNoRepeatRebuildsPool ==
    [][\A b \in BOOLEAN :
         ToggleNoRepeat(<<b>>)
         => /\ pool' = (IF b THEN Ids(roster) ELSE <<>>)
            /\ roster' = roster
            /\ history' = history
            /\ settings'.noRepeat = b]_vars

\* no-repeat has been disabled on a roster of two, after a draw, and the
\* pool is empty
C11_Witness ==
    /\ ~settings.noRepeat
    /\ Len(roster) >= 2
    /\ history # <<>>
    /\ pool = <<>>

\* C12: the sequence buildSequence builds for a draw result ends with the
\* target: its last tile has the result's name and the result's rarity, it
\* follows the fillers of the speed, and targetIndex is that tile's index.
C12_SequenceEndsWithTarget ==
    (rollItems # <<>> /\ lastResult # <<>>) =>
      LET items == rollItems[1]
      IN /\ Len(items) = FillerCount(settings.speed) + 1
         /\ items[Len(items)].name = ResultName(lastResult[1])
         /\ items[Len(items)].rarity = lastResult[1].rarity
         /\ targetIndex = Len(items) - 1

\* a sequence was built on the roster of seven for a gold result with a name
C12_Witness ==
    /\ rollItems # <<>>
    /\ lastResult # <<>>
    /\ Len(roster) = 7
    /\ ResultName(lastResult[1]) # <<>>
    /\ lastResult[1].rarity = "gold"
    /\ rollItems[1][Len(rollItems[1])].rarity = "gold"

\* C13: when the roster has at least two distinct names, no two adjacent
\* tiles of the built sequence have the same name, the last filler and the
\* target included.
C13_NoAdjacentSameName ==
    (/\ rollItems # <<>>
     /\ \E i, j \in 1..Len(roster) : roster[i].name # roster[j].name)
    => LET items == rollItems[1]
       IN \A i \in 1..(Len(items) - 1) : items[i].name # items[i + 1].name

\* C14: when the animation has completed in a container whose content is at
\* least one tile wide, the offset the reel is left at puts the centre of the
\* target tile within one pixel of the centre line of the container.
C14_TargetCentered ==
    (/\ reel # <<>>
     /\ reel[1].phase = "stopped"
     /\ Width(reel[1].measure) - Pad - Pad >= TileW)
    => LET m == reel[1].measure
           targetCenter ==
               (targetIndex + reel[1].shownPrepad) * Step * PxUnit
               + (TileW * PxUnit) \div 2
           containerCenter ==
               Pad * PxUnit + ((Width(m) - Pad - Pad) * PxUnit) \div 2
       IN Abs(reel[1].x + targetCenter - containerCenter) <= PxUnit

\* C15: onComplete is invoked exactly once for a reel whose animation was
\* started: never twice, and a reel that has not completed yet is still
\* mounted, so that its animation can complete.
C15_CompletesExactlyOnce ==
    reel # <<>> =>
      /\ reel[1].completions <= 1
      /\ reel[1].completions = 0 => reel[1].mounted

\* C16: the delayed setRollItems(null) of an earlier draw does not clear the
\* roll items of a later draw: on the roulette page there is a reel to show.
C16_StaleTimerKeepsRollItems ==
    currentPage = "roulette" => rollItems # <<>>

\* C17: an animation is scheduled or running only when a positive width has
\* been measured, and then the displayed tiles, the end point of the
\* animation and the final snap use the same prepad.
C17_NoAnimationWithoutWidth ==
    (/\ reel # <<>>
     /\ reel[1].mounted
     /\ reel[1].phase \in {"scheduled", "running"})
    => /\ Width(reel[1].measure) > 0
       /\ reel[1].shownPrepad = reel[1].animPrepad
       /\ reel[1].animPrepad = reel[1].snapPrepad

\* C18: reading back the level of a wear value generated for a level gives
\* that level, for every level and every value of Math.random(); the five
\* wear intervals are half-open, follow one another without gap or overlap
\* and cover [0, 1).
C18_WearRoundTrip ==
    /\ (wear # <<>> /\ wear[1].back # <<>>) => wear[1].back[1] = wear[1].level
    /\ WearLevels[1].min = <<>>
    /\ WearLevels[Len(WearLevels)].max = ShiftLeft(<<1>>, Scale)
    /\ \A i \in 1..Len(WearLevels) :
         /\ LessNat(WearLevels[i].min, WearLevels[i].max)
         /\ i > 1 => WearLevels[i].min = WearLevels[i - 1].max

\* C19: on every value of Math.random() the store's sampler and the sampler
\* of the filler tiles give the same rarity.
C19_SamplersAgree ==
    (rarityDraw # <<>> /\ rarityDraw[1].store # <<>>
                       /\ rarityDraw[1].filler # <<>>)
      => rarityDraw[1].store = rarityDraw[1].filler

\* C20: while lockClose and autoRolling are true no click on the result
\* screen invokes onClose or onContinue and the result page stays; onClose
\* is invoked only while lockClose is false and onContinue only while
\* autoRolling is false.
C20_LockedScreenIgnoresClicks ==
    [][menu # <<>> =>
         /\ menu'[1].closes # menu[1].closes => ~menu[1].lockClose
         /\ menu'[1].continues # menu[1].continues => ~menu[1].autoRolling
         /\ (menu[1].lockClose /\ menu[1].autoRolling /\ currentPage = "result")
              => /\ currentPage' = "result"
                 /\ menu'[1].closes = menu[1].closes
                 /\ menu'[1].continues = menu[1].continues]_vars

\* with both flags true the overlay has been clicked and nothing was called
C20_Witness ==
    /\ menu # <<>>
    /\ menu[1].lockClose /\ menu[1].autoRolling
    /\ menu[1].target = "overlay"
    /\ menu[1].called = "none"
    /\ menu[1].closes + menu[1].continues > 0
    /\ currentPage = "result"

\* one step of the auto multi-draw, from a to b: the next state in order,
\* with one drawNext (one more record, one more draw) exactly when a cycle
\* starts, or the abort on an emptied roster
CycleStep(a, b) ==
    LET drew     == /\ b.draws = a.draws + 1
                    /\ Len(history') = Len(history) + 1
                    /\ last'.op = "autoDraw"
        drewNone == b.draws = a.draws /\ history' = history
    IN  \/ a.state = "Idle" /\ b.state = "Rolling" /\ b.n = 1 /\ drew
        \/ a.state = "Rolling" /\ b.state = "Revealed" /\ b.n = a.n /\ drewNone
        \/ /\ a.state = "Revealed" /\ a.n < AutoCount
           /\ b.state = "Rolling" /\ b.n = a.n + 1 /\ drew
        \/ /\ a.state = "Revealed" /\ a.n = AutoCount
           /\ b.state = "Done" /\ b.n = a.n /\ drewNone
        \/ /\ Running(a) /\ roster' = <<>>
           /\ b.state = "Idle" /\ b.aborted /\ drewNone

\* C21: a started auto multi-draw goes through Rolling(n), Revealed(n) for
\* n = 1..5 in order with one drawNext per cycle and reaches Done after the
\* fifth reveal; a roster emptied on the way sends it to Idle for good, with
\* no further draw and without Done.
C21_AutoMultiDraw ==
    /\ [][auto'[1] # auto[1] => CycleStep(auto[1], auto'[1])]_vars
    /\ [][(Running(auto[1]) /\ roster' = <<>>) => auto'[1].aborted]_vars
    /\ [][auto[1].aborted
            => auto'[1] = auto[1] /\ history' = history]_vars
    /\ [](auto[1].state = "Done"
            => auto[1].n = AutoCount /\ auto[1].draws = AutoCount
               /\ Len(history) = AutoCount /\ ~auto[1].aborted)
    /\ (auto[1].state = "Rolling" /\ auto[1].n = 1)
         ~> (auto[1].state = "Done" \/ auto[1].aborted)

\* five draws were made on a roster of two and the sequence is Done
C21_Witness ==
    /\ auto # <<>>
    /\ auto[1].state = "Done"
    /\ auto[1].draws = AutoCount
    /\ Len(history) = AutoCount
    /\ Len(roster) = 2

\* the draw whose sequence rollItems holds is committed: its record is
\* lastResult and the last of history, its student is selected, the target
\* tile has its rarity, and in no-repeat mode the pool is without the
\* student's id
DrawCommitted ==
    /\ lastResult # <<>>
    /\ selectedStudent # <<>>
    /\ history # <<>>
    /\ history[Len(history)] = lastResult[1]
    /\ selectedStudent[1].id = lastResult[1].studentId
    /\ LET items == rollItems[1]
       IN  items[Len(items)].rarity = lastResult[1].rarity
    /\ settings.noRepeat
         => \A i \in 1..Len(pool) : pool[i] # lastResult[1].studentId

\* C22: in every state where rollItems holds a sequence, the draw of that
\* sequence is committed: its record is the last of history and lastResult
\* and, in no-repeat mode, the pool is without the chosen id.
C22_CommittedWhileRollItems ==
    rollItems # <<>> => DrawCommitted

\* the ids a drawNext in the current state chooses from
Eligible ==
    IF settings.noRepeat /\ pool # <<>> THEN pool ELSE Ids(roster)

\* this step is a successful drawNext of the store
DrawStep == last'.op = "drawNext" /\ last'.ret # <<>>

\* what a successful drawNext does apart from the pool: the chosen id is
\* eligible, exactly one record is appended to history, lastResult is that
\* record, selectedStudent the roster entry, roster and settings stay
DrawFrame ==
    LET result == last'.ret[1]
    IN  /\ result.studentId \in Range(Eligible)
        /\ history' = Append(history, result)
        /\ lastResult' = <<result>>
        /\ selectedStudent' = Find(roster, result.studentId)
        /\ selectedStudent' # <<>>
        /\ roster' = roster
        /\ settings' = settings

\* C23 as stated: a successful drawNext chooses an eligible id, appends one
\* record, sets lastResult and selectedStudent, keeps roster and settings,
\* and the pool loses exactly the chosen id in no-repeat mode and is
\* unchanged otherwise.
C23_DrawLosesChosenId ==
    [][DrawStep
         => /\ DrawFrame
            /\ pool' = IF settings.noRepeat
                       THEN RemoveFromPool(pool, last'.ret[1].studentId)
                       ELSE pool]_vars

\* C23, amended: as above, but in no-repeat mode the pool becomes the
\* eligible set without the chosen id: the pool without it when the pool
\* was not empty, the other roster ids when it was.
C23_DrawLeavesEligibleRest ==
    [][DrawStep
         => /\ DrawFrame
            /\ pool' = IF settings.noRepeat
                       THEN RemoveFromPool(Eligible, last'.ret[1].studentId)
                       ELSE pool]_vars

\* a draw on an exhausted pool of a roster of two has left the other id
C23_Witness ==
    /\ last.op = "drawNext"
    /\ last.ret # <<>>
    /\ last.poolWasEmpty
    /\ settings.noRepeat
    /\ Len(roster) = 2
    /\ Len(pool) = 1
    /\ pool[1] # last.ret[1].studentId

\* C24: removeStudent(id) removes id from roster and pool and leaves history
\* and settings unchanged, also when id is the subject of the most recent
\* result; the records of the removed student stay in history.
C24_RemoveKeepsHistory ==
    [][last'.op = "removeStudent"
         => LET id == last'.arg[1]
                NotId(s) == s.id # id
                Other1(x) == x # id
            IN  /\ roster' = SelectSeq(roster, NotId)
                /\ pool' = SelectSeq(pool, Other1)
                /\ \A i \in 1..Len(roster') : roster'[i].id # id
                /\ \A i \in 1..Len(pool') : pool'[i] # id
                /\ history' = history
                /\ settings' = settings]_vars

\* the subject of the most recent result was removed; its record is still
\* the last of history
C24_Witness ==
    /\ last.op = "removeStudent"
    /\ history # <<>>
    /\ history[Len(history)].studentId = last.arg[1]
    /\ lastResult = <<>>
    /\ roster # <<>>
    /\ \A i \in 1..Len(roster) : roster[i].id # last.arg[1]

\* the cumulative thresholds as the claim states them
StatedThresholds ==
    [BLUE |-> Literal(70, 100), PURPLE |-> Literal(88, 100),
     PINK |-> Literal(96, 100), RED |-> Literal(995, 1000)]

\* the first tier whose stated threshold is strictly greater than r
StatedTier(r) ==
    IF LessNat(r, StatedThresholds.BLUE) THEN "blue"
    ELSE IF LessNat(r, StatedThresholds.PURPLE) THEN "purple"
    ELSE IF LessNat(r, StatedThresholds.PINK) THEN "pink"
    ELSE IF LessNat(r, StatedThresholds.RED) THEN "red"
    ELSE "gold"

\* C25: drawRarity maps a value r of [0, 1) to the first tier whose
\* cumulative threshold (blue 0.70, purple 0.88, pink 0.96, red 0.995) is
\* strictly greater than r, gold otherwise; the thresholds are strictly
\* ascending, and a value equal to a threshold gets the next tier.
C25_FirstTierAboveDraw ==
    /\ LessNat(StatedThresholds.BLUE, StatedThresholds.PURPLE)
    /\ LessNat(StatedThresholds.PURPLE, StatedThresholds.PINK)
    /\ LessNat(StatedThresholds.PINK, StatedThresholds.RED)
    /\ (rarityDraw # <<>> /\ rarityDraw[1].config # <<>>) =>
         LET r == rarityDraw[1].random
             tier == rarityDraw[1].config[1]
         IN  /\ tier = StatedTier(r)
             /\ r = StatedThresholds.BLUE => tier = "purple"
             /\ r = StatedThresholds.PURPLE => tier = "pink"
             /\ r = StatedThresholds.PINK => tier = "red"
             /\ r = StatedThresholds.RED => tier = "gold"

\* C26: whenever no-repeat is disabled the pool is empty, whatever store
\* operations and import flows (resetPool, the settings imports that call
\* resetPool) led to the state.
C26_PoolEmptyWithoutNoRepeat ==
    ~settings.noRepeat => pool = <<>>

\* C27: saving the settings form always calls toggleNoRepeat with the form
\* value: right after a save the no-repeat setting is the form's value, and
\* if it is enabled the pool is the full list of roster ids, in roster order.
C27_SaveRebuildsPool ==
    last.op = "handleSubmit" =>
      /\ settings.noRepeat = last.arg[1]
      /\ settings.noRepeat => pool = [i \in 1..Len(roster) |-> roster[i].id]

\* a save with no-repeat enabled, after a draw had taken an id out of the
\* pool of a roster of two
C27_Witness ==
    /\ last.op = "handleSubmit"
    /\ last.arg = <<TRUE>>
    /\ settings.noRepeat
    /\ Len(roster) = 2
    /\ Len(pool) = 2
    /\ lastResult # <<>>

\* C28: the pool holds no id twice, and while no-repeat is enabled the size
\* of the pool plus the number of students getDrawnStudents(roster, pool,
\* true) returns is the size of the roster.
C28_PoolAndDrawnPartitionRoster ==
    /\ \A i, j \in 1..Len(pool) : pool[i] = pool[j] => i = j
    /\ settings.noRepeat =>
         Len(pool) + Len(GetDrawnStudents(roster, pool, TRUE)) = Len(roster)

\* no-repeat mode, a roster of two, one drawn and one left in the pool
C28_Witness ==
    /\ settings.noRepeat
    /\ Len(roster) = 2
    /\ Len(pool) = 1
    /\ Len(GetDrawnStudents(roster, pool, TRUE)) = 1
    /\ lastResult # <<>>
    /\ GetDrawnStudents(roster, pool, TRUE)[1].id = lastResult[1].studentId

\* C29: lastResult and selectedStudent are both undefined or both defined;
\* when defined, selectedStudent.id is lastResult.studentId and that id is
\* the id of a current roster entry.
C29_LastResultMatchesSelected ==
    /\ (lastResult = <<>>) <=> (selectedStudent = <<>>)
    /\ lastResult # <<>> =>
         /\ selectedStudent[1].id = lastResult[1].studentId
         /\ \E i \in 1..Len(roster) : roster[i].id = lastResult[1].studentId

\* the result of a draw is still shown after another student was removed
C29_Witness ==
    /\ last.op = "removeStudent"
    /\ lastResult # <<>>
    /\ selectedStudent # <<>>
    /\ Len(roster) = 1
    /\ roster[1].id = lastResult[1].studentId

\* C30: at most one draw is in flight. The draw handler invokes drawNext only
\* while the page is 'home' (a record is added to history only by a step
\* that leaves 'home' for 'roulette'), and the page moves only home ->
\* roulette -> result -> home, or roulette -> home when drawNext returned no
\* result.
C30_OneDrawInFlight ==
    [][/\ Len(history') > Len(history)
          => (currentPage = "home" /\ currentPage' = "roulette")
       /\ (last'.op = "handleDraw" /\ last' # last) => currentPage = "home"
       /\ currentPage' # currentPage
          => \/ currentPage = "home" /\ currentPage' = "roulette"
             \/ currentPage = "roulette" /\ currentPage' = "result"
             \/ currentPage = "result" /\ currentPage' = "home"
             \/ /\ currentPage = "roulette" /\ currentPage' = "home"
                /\ last'.op = "handleDraw" /\ last'.ret = <<>>]_vars

\* a second draw has been revealed: the pages went round once and on to
\* 'result' again
C30_Witness ==
    /\ currentPage = "result"
    /\ Len(history) = 2
    /\ lastResult # <<>>
    /\ lastResult[1] = history[2]

====
